---- MODULE Spec2Model ----
(***************************************************************************)
(* Signal-gating core of the trading-signal service:                       *)
(*   - SmartTechnicalAnalyzer  (advanced_technical_analysis.py)            *)
(*   - AdvancedMarketAI / analyze_asset_with_ai  (market_ai_engine.py)     *)
(*   - PriceService._analyze_multi_timeframe_indicators (api_service.py)   *)
(*   - PriceService.generate_trading_signals_fast and the OpenAI analyzer  *)
(*     behind it  (api_service.py, ai_service.py)                          *)
(*   - the timer threads and the price_monitor thread  (app.py)            *)
(*                                                                         *)
(* Specifications.  Spec, SpecWeights, SpecLockCheck, SpecLockDuration,    *)
(* SpecVotes, SpecVolatility, SpecLearning and SpecSignalsFast run whole   *)
(* calls one after another.                                                *)
(* SpecTimers, SpecScoring and SpecMonitor run threads one statement at a  *)
(* time: the code takes no lock anywhere.                                  *)
(*                                                                         *)
(* Numbers.  The Python code computes in IEEE doubles; the model computes  *)
(* the same expressions in exact rational arithmetic.  Prices, ATR and     *)
(* Bollinger bands are integers in tenths, MACD in 1/10000, RSI and        *)
(* Stochastic in whole points, the AI engine's scores in thousandths.      *)
(* The adaptive weights are rationals num[i]/den with a common             *)
(* denominator; numerators and denominator are arbitrary-precision         *)
(* naturals (little-endian sequences of base-10000 limbs), because the     *)
(* denominators grow by two decimal digits per update.                     *)
(***************************************************************************)
EXTENDS Integers, Sequences, FiniteSets, TLC

(* ----------------------------- bounds ---------------------------------- *)
MaxUpdates == 26

MaxWins == 1

MaxEvalUpdates == 5

MaxVolatilityUpdates == 8

MaxOutcomes == 3

MaxTime == 601

(* ------------------- arbitrary-precision naturals ---------------------- *)
Base == 100 * 100

RECURSIVE BNorm(_)
BNorm(s) ==
  IF s = <<>> THEN <<>>
  ELSE IF s[Len(s)] = 0 THEN BNorm(SubSeq(s, 1, Len(s) - 1)) ELSE s

RECURSIVE BFromInt(_)
BFromInt(n) ==
  IF n = 0 THEN <<>> ELSE <<n % Base>> \o BFromInt(n \div Base)

RECURSIVE BAddFrom(_, _, _, _)
BAddFrom(a, b, i, c) ==
  IF i > Len(a) /\ i > Len(b)
  THEN (IF c = 0 THEN <<>> ELSE <<c>>)
  ELSE LET x == (IF i <= Len(a) THEN a[i] ELSE 0)
                + (IF i <= Len(b) THEN b[i] ELSE 0) + c
       IN  <<x % Base>> \o BAddFrom(a, b, i + 1, x \div Base)

BAdd(a, b) == BAddFrom(a, b, 1, 0)

RECURSIVE BSubFrom(_, _, _, _)
BSubFrom(a, b, i, c) ==
  IF i > Len(a) THEN <<>>
  ELSE LET x == a[i] - (IF i <= Len(b) THEN b[i] ELSE 0) - c
       IN  IF x < 0 THEN <<x + Base>> \o BSubFrom(a, b, i + 1, 1)
           ELSE <<x>> \o BSubFrom(a, b, i + 1, 0)

\* a - b for a >= b
BSub(a, b) == BNorm(BSubFrom(a, b, 1, 0))

RECURSIVE BMulIntFrom(_, _, _, _)
BMulIntFrom(a, k, i, c) ==
  IF i > Len(a) THEN BFromInt(c)
  ELSE LET x == a[i] * k + c
       IN  <<x % Base>> \o BMulIntFrom(a, k, i + 1, x \div Base)

\* a * k for a small natural k (k <= 100000)
BMulInt(a, k) == IF k = 0 THEN <<>> ELSE BMulIntFrom(a, k, 1, 0)

RECURSIVE BLessFrom(_, _, _)
BLessFrom(a, b, i) ==
  IF i = 0 THEN FALSE
  ELSE IF a[i] # b[i] THEN a[i] < b[i] ELSE BLessFrom(a, b, i - 1)

BLess(a, b) ==
  IF Len(a) # Len(b) THEN Len(a) < Len(b) ELSE BLessFrom(a, b, Len(a))

BLeq(a, b) == ~BLess(b, a)

BMax(a, b) == IF BLess(a, b) THEN b ELSE a

BMin(a, b) == IF BLess(a, b) THEN a ELSE b

RECURSIVE BMulFrom(_, _, _)
BMulFrom(a, b, i) ==
  IF i > Len(b) THEN <<>>
  ELSE BAdd(BMulInt(a, b[i]),
            LET r == BMulFrom(a, b, i + 1)
            IN  IF r = <<>> THEN <<>> ELSE <<0>> \o r)

BMul(a, b) == BNorm(BMulFrom(a, b, 1))

(* ------------------------- adaptive weights ---------------------------- *)
Indicators == {"rsi", "macd", "bollinger", "volume", "stochastic", "williams_r"}

Outcomes == {"win", "loss"}

\* learning_weights of __init__: weight[i] = num[i] / den
DefaultWeights ==
  [num |-> [i \in Indicators |->
              BFromInt(CASE i = "rsi" -> 20
                         [] i = "macd" -> 25
                         [] i = "bollinger" -> 20
                         [] i = "volume" -> 15
                         [] i = "stochastic" -> 10
                         [] i = "williams_r" -> 10)],
   den |-> BFromInt(100)]

RECURSIVE BSumOver(_, _)
BSumOver(f, S) ==
  IF S = {} THEN <<>>
  ELSE LET i == CHOOSE j \in S : TRUE
       IN  BAdd(f[i], BSumOver(f, S \ {i}))

\* sum(self.learning_weights.values()) as a numerator over w.den
WeightSum(w) == BSumOver(w.num, Indicators)

\* a first loop that moves every weight by 0.1 instead of learning_rate
AdjustWeightsCoarse(w, outcome) ==
  [num |-> [i \in Indicators |->
              IF outcome = "win"
              THEN BMin(BMulInt(w.den, 4), BAdd(BMulInt(w.num[i], 10), w.den))
              ELSE IF BLess(BMulInt(w.num[i], 10), w.den)
                   THEN BMulInt(w.den, 5)
                   ELSE BSub(BMulInt(w.num[i], 10), w.den)],
   den |-> BMulInt(w.den, 10)]

\* the first loop of _update_indicator_weights: every weight moved by
\* learning_rate = 0.01 and clamped at 0.4 (win) or 0.05 (loss).
\* The result is over the denominator 100 * w.den.
AdjustWeights(w, outcome) ==
  [num |-> [i \in Indicators |->
              IF outcome = "win"
              THEN BMin(BMulInt(w.den, 40), BAdd(BMulInt(w.num[i], 100), w.den))
              ELSE IF BLess(BMulInt(w.num[i], 100), w.den)
                   THEN BMulInt(w.den, 5)
                   ELSE BMax(BMulInt(w.den, 5),
                             BSub(BMulInt(w.num[i], 100), w.den))],
   den |-> BMulInt(w.den, 100)]

\* an update that stores the clamped weights without dividing by the total
KeepClampedWeights(w) == w

\* the second loop: every weight divided by total_weight
NormalizeWeights(w) == [num |-> w.num, den |-> WeightSum(w)]

\* _update_indicator_weights(outcome); outcome > 0 is a win
UpdateIndicatorWeightsOf(w, outcome) == NormalizeWeights(AdjustWeights(w, outcome))

\* comparisons of one weight with a constant p/q, and of two weights
WeightLess(w, i, p, q) == BLess(BMulInt(w.num[i], q), BMulInt(w.den, p))

WeightGreater(w, i, p, q) == BLess(BMulInt(w.den, p), BMulInt(w.num[i], q))

WeightEquals(w, i, p, q) == BMulInt(w.num[i], q) = BMulInt(w.den, p)

\* v.num[i]/v.den < w.num[i]/w.den
WeightBelow(v, w, i) == BLess(BMul(v.num[i], w.den), BMul(w.num[i], v.den))

(* ------------------- SmartTechnicalAnalyzer: inputs -------------------- *)
Assets == {"A", "B"}

\* MarketState snapshots handed to generate_smart_signal: price, atr and the
\* Bollinger bands in tenths, macd in 1/10000, rsi and stochastic in points.
\* Scenario A: rsi 25, macd 0.4, price 100, bands 98..102, stochastic 18, atr 1.0
ScenarioA ==
  [price |-> 1000, atr |-> 10, rsi |-> 25, macd |-> 4000,
   bollinger_lower |-> 980, bollinger_upper |-> 1020, stochastic |-> 18]

\* Scenario B: Scenario A with atr 9.0
ScenarioB == [ScenarioA EXCEPT !.atr = 90]

\* price under the lower band, rsi 60, macd positive: three bullish votes
BullishState ==
  [price |-> 1000, atr |-> 10, rsi |-> 60, macd |-> 4000,
   bollinger_lower |-> 1010, bollinger_upper |-> 1050, stochastic |-> 50]

\* the mirror image: price over the upper band, rsi 40, macd negative
BearishState ==
  [price |-> 1000, atr |-> 10, rsi |-> 40, macd |-> -4000,
   bollinger_lower |-> 950, bollinger_upper |-> 990, stochastic |-> 50]

\* rsi and macd disagree inside the bands
MixedState ==
  [price |-> 1000, atr |-> 10, rsi |-> 40, macd |-> 4000,
   bollinger_lower |-> 980, bollinger_upper |-> 1020, stochastic |-> 50]

\* a calm market that moves 9% per bar
VolatileState ==
  [price |-> 1000, atr |-> 90, rsi |-> 60, macd |-> 4000,
   bollinger_lower |-> 980, bollinger_upper |-> 1020, stochastic |-> 50]

\* a snapshot with price 0
ZeroPriceState == [BullishState EXCEPT !.price = 0]

\* a snapshot with atr 0
ZeroAtrState == [BullishState EXCEPT !.atr = 0]

\* a snapshot whose Bollinger bands coincide
FlatBandsState ==
  [BullishState EXCEPT !.bollinger_lower = 1000, !.bollinger_upper = 1000]

MarketStates ==
  {ScenarioA, ScenarioB, BullishState, BearishState, MixedState, VolatileState,
   ZeroPriceState, ZeroAtrState, FlatBandsState}

Abs(x) == IF x < 0 THEN -x ELSE x

\* x/d <= n/10 and x/d >= n/10 for d # 0
RatioLeqTenths(x, d, n) == IF d > 0 THEN 10 * x <= n * d ELSE 10 * x >= n * d

RatioGeqTenths(x, d, n) == IF d > 0 THEN 10 * x >= n * d ELSE 10 * x <= n * d

\* x/d < n/100 and x/d > n/100 for d # 0
RatioLessHundredths(x, d, n) == IF d > 0 THEN 100 * x < n * d ELSE 100 * x > n * d

RatioGreaterHundredths(x, d, n) == IF d > 0 THEN 100 * x > n * d ELSE 100 * x < n * d

(* ---------------- SmartTechnicalAnalyzer: pure helpers ----------------- *)
confidence_threshold == 75

min_signal_interval == 300

trend_stability_threshold_tenths == 7

\* a volatility factor that ignores atr / price
VolatilityPartialCalm(ms) == 8

\* the partial scores of _assess_market_stability, in tenths
VolatilityPartial(ms) ==
  IF RatioLessHundredths(ms.atr, ms.price, 2) THEN 8
  ELSE IF RatioLessHundredths(ms.atr, ms.price, 5) THEN 6 ELSE 2

RsiPartial(ms) ==
  IF 35 <= ms.rsi /\ ms.rsi <= 65 THEN 9
  ELSE IF 25 <= ms.rsi /\ ms.rsi <= 75 THEN 6 ELSE 3

BollingerPartial(ms) ==
  LET x == ms.price - ms.bollinger_lower
      d == ms.bollinger_upper - ms.bollinger_lower
  IN  IF RatioGeqTenths(x, d, 3) /\ RatioLeqTenths(x, d, 7) THEN 8
      ELSE IF RatioGeqTenths(x, d, 2) /\ RatioLeqTenths(x, d, 8) THEN 6 ELSE 2

StochasticPartial(ms) ==
  IF 30 <= ms.stochastic /\ ms.stochastic <= 70 THEN 7 ELSE 3

\* _assess_market_stability for price # 0 and bollinger_upper # bollinger_lower:
\* stability_score = score40 / 40, is_stable = stability_score > 0.6
AssessMarketStability(ms) ==
  LET k == VolatilityPartial(ms) + RsiPartial(ms)
           + BollingerPartial(ms) + StochasticPartial(ms)
  IN  [score40 |-> k, is_stable |-> k > 24]

\* float('nan') in a field of MarketState: a value no indicator takes
NaN == -1000000

\* the comparisons of Python floats: every comparison with NaN is False
Gt(x, y) == x # NaN /\ y # NaN /\ x > y

Lt(x, y) == x # NaN /\ y # NaN /\ x < y

Geq(x, y) == x # NaN /\ y # NaN /\ x >= y

Leq(x, y) == x # NaN /\ y # NaN /\ x <= y

\* an RSI vote that calls 70 overbought and 30 oversold
RsiVoteInclusive(ms) ==
  IF Geq(ms.rsi, 70) THEN <<"overbought", 8>>
  ELSE IF Leq(ms.rsi, 30) THEN <<"oversold", 8>>
  ELSE IF Leq(45, ms.rsi) /\ Leq(ms.rsi, 55) THEN <<"neutral", 6>>
  ELSE IF Gt(ms.rsi, 55) THEN <<"bullish", 7>> ELSE <<"bearish", 7>>

\* the votes of analyze_trend_stability: sentiment and confidence in tenths
RsiVote(ms) ==
  IF Gt(ms.rsi, 70) THEN <<"overbought", 8>>
  ELSE IF Lt(ms.rsi, 30) THEN <<"oversold", 8>>
  ELSE IF Leq(45, ms.rsi) /\ Leq(ms.rsi, 55) THEN <<"neutral", 6>>
  ELSE IF Gt(ms.rsi, 55) THEN <<"bullish", 7>> ELSE <<"bearish", 7>>

MacdVote(ms) ==
  IF Gt(ms.macd, 0) THEN <<"bullish", 8>>
  ELSE IF Lt(ms.macd, 0) THEN <<"bearish", 8>> ELSE <<"neutral", 5>>

BollingerVote(ms) ==
  IF Gt(ms.price, ms.bollinger_upper) THEN <<"overbought", 9>>
  ELSE IF Lt(ms.price, ms.bollinger_lower) THEN <<"oversold", 9>>
  ELSE <<"neutral", 6>>

StochasticVote(ms) ==
  IF Gt(ms.stochastic, 80) THEN <<"overbought", 7>>
  ELSE IF Lt(ms.stochastic, 20) THEN <<"oversold", 7>> ELSE <<"neutral", 5>>

IndicatorsVote(ms) ==
  [i \in {"rsi", "macd", "bollinger", "stochastic"} |->
     CASE i = "rsi" -> RsiVote(ms)
       [] i = "macd" -> MacdVote(ms)
       [] i = "bollinger" -> BollingerVote(ms)
       [] i = "stochastic" -> StochasticVote(ms)]

\* one bucket of weighted confidences, as a numerator over 10 * w.den
RECURSIVE BucketOver(_, _, _, _)
BucketOver(w, votes, sentiments, S) ==
  IF S = {} THEN <<>>
  ELSE LET i == CHOOSE j \in S : TRUE
           r == BucketOver(w, votes, sentiments, S \ {i})
       IN  IF votes[i][1] \in sentiments
           THEN BAdd(BMulInt(w.num[i], votes[i][2]), r) ELSE r

\* a direction rule that follows the largest bucket whatever the stability
TrendOfLargestBucket(bullish, bearish, neutral) ==
  LET max_score == BMax(bullish, BMax(bearish, neutral))
  IN  [trend |-> IF max_score = bullish THEN "uptrend"
                 ELSE IF max_score = bearish THEN "downtrend" ELSE "sideways",
       max_score |-> max_score,
       total |-> BAdd(bullish, BAdd(bearish, neutral))]

\* the direction rule of analyze_trend_stability on the three buckets;
\* stability = max_score / total as the pair max_score, total
TrendOfScores(bullish, bearish, neutral) ==
  LET max_score == BMax(bullish, BMax(bearish, neutral))
      total == BAdd(bullish, BAdd(bearish, neutral))
      above == BLess(BMulInt(total, trend_stability_threshold_tenths),
                     BMulInt(max_score, 10))
  IN  [trend |-> IF max_score = bullish /\ above THEN "uptrend"
                 ELSE IF max_score = bearish /\ above THEN "downtrend"
                 ELSE "sideways",
       max_score |-> max_score, total |-> total]

\* analyze_trend_stability
AnalyzeTrendStability(w, ms) ==
  LET votes == IndicatorsVote(ms)
      D == DOMAIN votes
  IN  TrendOfScores(BucketOver(w, votes, {"bullish", "oversold"}, D),
                    BucketOver(w, votes, {"bearish", "overbought"}, D),
                    BucketOver(w, votes, {"neutral"}, D))

\* the MACD and RSI confirmation factors of _assess_trend_clarity, in hundredths
MacdFactor(trend, ms) ==
  IF trend = "uptrend" /\ ms.macd > 0 THEN 80
  ELSE IF trend = "downtrend" /\ ms.macd < 0 THEN 80
  ELSE IF trend = "sideways" /\ Abs(ms.macd) < 10 THEN 60 ELSE 30

RsiFactor(trend, ms) ==
  IF trend = "uptrend" /\ ms.rsi > 50 THEN 70
  ELSE IF trend = "downtrend" /\ ms.rsi < 50 THEN 70
  ELSE IF trend = "sideways" /\ 45 <= ms.rsi /\ ms.rsi <= 55 THEN 80 ELSE 40

\* is_clear of _assess_trend_clarity:
\* clarity_score = (stability + factors/100) / 3 > 0.65 and trend is not sideways
IsClear(tr, factors) ==
  /\ BLess(BMulInt(tr.total, 195),
           BAdd(BMulInt(tr.max_score, 100), BMulInt(tr.total, factors)))
  /\ tr.trend # "sideways"

AssessTrendClarity(tr, ms) ==
  LET factors == MacdFactor(tr.trend, ms) + RsiFactor(tr.trend, ms)
  IN  [factors |-> factors, is_clear |-> IsClear(tr, factors)]

\* a volatility check that turns away the extreme level only
TooVolatileExtremeOnly(ms) == RatioGreaterHundredths(ms.atr, ms.price, 8)

\* too_volatile of _check_volatility_levels (both the extreme and the high
\* branch return True)
TooVolatile(ms) ==
  \/ RatioGreaterHundredths(ms.atr, ms.price, 8)
  \/ RatioGreaterHundredths(ms.atr, ms.price, 5)

\* learning_factor = min(1.2, max(0.8, accuracy)) for accuracy = acc[1]/acc[2]
LearningFactor(acc) ==
  IF 10 * acc[1] < 8 * acc[2] THEN <<8, 10>>
  ELSE IF 10 * acc[1] > 12 * acc[2] THEN <<12, 10>> ELSE acc

\* adjusted_confidence = base_confidence * learning_factor + stability_bonus
\* + clarity_bonus, times 6000 * lf[2] * tr.total
AdjustedConfidenceScaled(tr, score40, factors, lf) ==
  BAdd(BAdd(BMulInt(BMulInt(tr.max_score, 6000), 100 * lf[1]),
            BMulInt(tr.total, 15 * score40 * lf[2])),
       BAdd(BMulInt(tr.max_score, 200 * lf[2]),
            BMulInt(tr.total, 2 * factors * lf[2])))

\* the number c on the same scale
ConfidenceScaled(tr, lf, c) == BMulInt(BMulInt(tr.total, 6000), c * lf[2])

\* a gate that lets every candidate through
NeverBelowThreshold(tr, score40, factors, lf) == FALSE

BelowConfidenceThreshold(tr, score40, factors, lf) ==
  BLess(AdjustedConfidenceScaled(tr, score40, factors, lf),
        ConfidenceScaled(tr, lf, confidence_threshold))

\* min(98, int(adjusted_confidence)) of a candidate that passed the threshold
StoredConfidence(tr, score40, factors, lf) ==
  LET x == AdjustedConfidenceScaled(tr, score40, factors, lf)
  IN  IF BLeq(ConfidenceScaled(tr, lf, 98), x) THEN 98
      ELSE CHOOSE c \in confidence_threshold..97 :
             /\ BLeq(ConfidenceScaled(tr, lf, c), x)
             /\ BLess(x, ConfidenceScaled(tr, lf, c + 1))

\* entry, stop and target with the target five ATR away
EntryExitWide(trend, ms) ==
  IF trend = "uptrend"
  THEN [signal_type |-> "BUY", entry_price |-> ms.price,
        stop_loss |-> ms.price - ms.atr * 2, take_profit |-> ms.price + ms.atr * 5]
  ELSE [signal_type |-> "SELL", entry_price |-> ms.price,
        stop_loss |-> ms.price + ms.atr * 2, take_profit |-> ms.price - ms.atr * 5]

\* entry, stop and target of step 7, in tenths
EntryExit(trend, ms) ==
  IF trend = "uptrend"
  THEN [signal_type |-> "BUY", entry_price |-> ms.price,
        stop_loss |-> ms.price - ms.atr * 2, take_profit |-> ms.price + ms.atr * 3]
  ELSE [signal_type |-> "SELL", entry_price |-> ms.price,
        stop_loss |-> ms.price + ms.atr * 2, take_profit |-> ms.price - ms.atr * 3]

\* risk_reward_ratio = reward / risk if risk > 0 else 0, as <<num, den>>
RiskReward(ee) ==
  LET risk == Abs(ee.entry_price - ee.stop_loss)
      reward == Abs(ee.take_profit - ee.entry_price)
  IN  IF risk > 0 THEN <<reward, risk>> ELSE <<0, 1>>

\* a floor of 1.0 in place of 2.0
PoorRiskRewardBelowOne(rr) == rr[1] < rr[2]

\* risk_reward_ratio < 2.0
PoorRiskReward(rr) == rr[1] < 2 * rr[2]

\* a lock that gets shorter as volatility grows
LockDurationCalmer(ms, score40) ==
  LET raw == (600 + 15 * (40 - score40)) * ms.price - 1200 * ms.atr
      lo == 300 * ms.price
      hi == 2400 * ms.price
  IN  <<IF raw < lo THEN lo ELSE IF raw > hi THEN hi ELSE raw, ms.price>>

\* a lock duration without the clamp
LockDurationUnclamped(ms, score40) ==
  <<(600 + 15 * (40 - score40)) * ms.price + 1200 * ms.atr, ms.price>>

\* lock_duration = max(300, min(2400, 600 + volatility_score * 1200
\* + (1 - stability_score) * 600)) seconds, as <<num, den>> with den = price
LockDuration(ms, score40) ==
  LET raw == (600 + 15 * (40 - score40)) * ms.price + 1200 * ms.atr
      lo == 300 * ms.price
      hi == 2400 * ms.price
  IN  <<IF raw < lo THEN lo ELSE IF raw > hi THEN hi ELSE raw, ms.price>>

\* current_time < signal.locked_until, locked_until a pair <<num, den>>, den > 0
TimeBefore(t, until) == t * until[2] < until[1]

\* current_time > signal.locked_until
TimeAfter(t, until) == t * until[2] > until[1]

\* a lock check that measures min_signal_interval from the signal's timestamp
\* instead of reading locked_until
IsLockedByInterval(signals, a, t) ==
  /\ a \in DOMAIN signals
  /\ t < signals[a].timestamp + min_signal_interval

\* a lock check that is blocked by a live lock of any asset
IsLockedAnyAsset(signals, a, t) ==
  \E x \in DOMAIN signals : TimeBefore(t, signals[x].locked_until)

\* step 1 of generate_smart_signal: the asset has an entry that still locks
IsLocked(signals, a, t) ==
  /\ a \in DOMAIN signals
  /\ TimeBefore(t, signals[a].locked_until)

DefaultAccuracy == <<7, 10>>

\* the TradingSignal built in step 10: locked_until = current_time + lock_duration
TradingSignal(ee, confidence, trend, rr, t, dur) ==
  [signal_type |-> ee.signal_type, confidence |-> confidence, trend |-> trend,
   entry_price |-> ee.entry_price, stop_loss |-> ee.stop_loss,
   take_profit |-> ee.take_profit, risk_reward_ratio |-> rr,
   timestamp |-> t, locked_until |-> <<t * dur[2] + dur[1], dur[2]>>]

AbstainResult(reason, trend, rr) ==
  [reason |-> reason, trend |-> trend, rr |-> rr, signal |-> <<>>]

\* the checks of generate_smart_signal that end in `return None`
AbstainReasons ==
  {"locked", "unstable_market", "unclear_trend", "excessive_volatility",
   "low_confidence", "no_direction", "poor_risk_reward"}

\* what generate_smart_signal reports when the check named reason fails: every
\* one of them is a bare `return None`, with no log line and no counter
SmartAbstainReport(reason) == [returned |-> "None", logged |-> "nothing"]

\* steps 5 to 10 of generate_smart_signal for a stable, clear, calm candidate
SmartCandidate(acc_log, t, a, ms, st, tr, cl) ==
  LET acc == IF a \in DOMAIN acc_log THEN acc_log[a].accuracy ELSE DefaultAccuracy
      lf == LearningFactor(acc)
      ee == EntryExit(tr.trend, ms)
      rr == RiskReward(ee)
      dur == LockDuration(ms, st.score40)
  IN  IF BelowConfidenceThreshold(tr, st.score40, cl.factors, lf)
      THEN AbstainResult("low_confidence", tr.trend, <<>>)
      ELSE IF ~(tr.trend \in {"uptrend", "downtrend"} /\ cl.is_clear)
      THEN AbstainResult("no_direction", tr.trend, <<>>)
      ELSE IF PoorRiskReward(rr)
      THEN AbstainResult("poor_risk_reward", tr.trend, <<rr>>)
      ELSE [reason |-> "emitted", trend |-> tr.trend, rr |-> <<rr>>,
            signal |-> <<TradingSignal(ee, StoredConfidence(tr, st.score40, cl.factors, lf),
                                       tr.trend, rr, t, dur)>>]

\* generate_smart_signal(asset_id, market_state) called at time t: the check
\* that returns, in the order of the code.  "raised" is the ZeroDivisionError
\* of atr / price or of the Bollinger position.
SmartEvaluate(signals, w, acc_log, t, a, ms) ==
  IF IsLocked(signals, a, t) THEN AbstainResult("locked", "none", <<>>)
  ELSE IF ms.price = 0 \/ ms.bollinger_upper = ms.bollinger_lower
  THEN AbstainResult("raised", "none", <<>>)
  ELSE LET st == AssessMarketStability(ms)
           tr == AnalyzeTrendStability(w, ms)
           cl == AssessTrendClarity(tr, ms)
       IN  IF ~st.is_stable THEN AbstainResult("unstable_market", "none", <<>>)
           ELSE IF ~cl.is_clear THEN AbstainResult("unclear_trend", tr.trend, <<>>)
           ELSE IF TooVolatile(ms)
           THEN AbstainResult("excessive_volatility", tr.trend, <<>>)
           ELSE SmartCandidate(acc_log, t, a, ms, st, tr, cl)

\* clean_expired_signals at time t
CleanExpired(signals, t) ==
  [a \in {x \in DOMAIN signals : ~TimeAfter(t, signals[x].locked_until)} |->
     signals[a]]

(* ------------------------- AdvancedMarketAI ---------------------------- *)
\* thresholds of AdvancedMarketAI.__init__, in thousandths
min_stability_score == 750

min_clarity_score == 800

max_volatility_level == 300

min_confidence_level == 850

min_consensus_score == 750

\* min_risk_reward_ratio = 2.5 as <<num, den>>
min_risk_reward_ratio == <<5, 2>>

\* asset_data['trend'] as the caller passes it: direction and strength
TrendInfos ==
  {[trend |-> "uptrend", strength |-> 90], [trend |-> "downtrend", strength |-> 80],
   [trend |-> "sideways", strength |-> 90], [trend |-> "volatile", strength |-> 90]}

\* one call of analyze_asset_with_ai: the trend block of asset_data, the three
\* random.uniform draws of the analysis (thousandths), and whether the
\* floating-point quotient of step 7 falls below the exact ratio
AIInputs ==
  {[price |-> 1000, trend_info |-> ti, noise |-> n, volatility |-> v,
    consensus |-> 900] :
     ti \in TrendInfos, n \in {-100, -50, 100}, v \in {200, 400}}

Clamp(x, lo, hi) == IF x < lo THEN lo ELSE IF x > hi THEN hi ELSE x

\* _analyze_market_stability, traditional branch (no comprehensive data)
AIMarketStability(in) ==
  LET strength == in.trend_info.strength
      base == IF strength > 80 THEN 900
              ELSE IF strength > 60 THEN 800
              ELSE IF strength > 40 THEN 600 ELSE 300
      score == Clamp(base + in.noise, 0, 1000)
  IN  [score |-> score, is_stable |-> score >= min_stability_score]

\* _analyze_trend_clarity
AITrendClarity(in) ==
  LET trend == in.trend_info.trend
      strength == in.trend_info.strength
      r == IF trend = "sideways" THEN <<200, "UNCLEAR">>
           ELSE IF strength > 85 THEN <<950, "VERY_STRONG">>
           ELSE IF strength > 70 THEN <<850, "STRONG">>
           ELSE IF strength > 50 THEN <<650, "MODERATE">>
           ELSE <<350, "WEAK">>
  IN  [clarity_score |-> r[1], strength |-> r[2],
       is_clear |-> r[1] >= min_clarity_score /\ trend # "sideways"]

\* _calculate_overall_confidence, times 10000
AIConfidence10(st, cl, in) ==
  Clamp(3 * st.score + 3 * cl.clarity_score + 2 * (1000 - in.volatility)
        + 2 * in.consensus, 0, 10000)

\* _determine_market_condition
AIMarketCondition(st, cl, in) ==
  IF ~st.is_stable \/ ~(in.volatility <= max_volatility_level) THEN "VOLATILE"
  ELSE IF ~cl.is_clear THEN "SIDEWAYS"
  ELSE IF st.is_stable /\ cl.is_clear THEN "TRENDING" ELSE "STABLE"

\* analyze_market_deeply
AnalyzeMarketDeeply(in) ==
  LET st == AIMarketStability(in)
      cl == AITrendClarity(in)
  IN  [current_price |-> in.price,
       market_condition |-> AIMarketCondition(st, cl, in),
       trend_direction |-> in.trend_info.trend,
       trend_strength |-> cl.strength,
       stability_score |-> st.score,
       clarity_score |-> cl.clarity_score,
       volatility_level |-> in.volatility,
       confidence10 |-> AIConfidence10(st, cl, in),
       indicators_consensus |-> in.consensus]

\* _meets_ai_standards: all five checks
MeetsAIStandards(an) ==
  /\ an.stability_score >= min_stability_score
  /\ an.clarity_score >= min_clarity_score
  /\ an.volatility_level <= max_volatility_level
  /\ an.confidence10 >= 10 * min_confidence_level
  /\ an.indicators_consensus >= min_consensus_score

\* _determine_signal_type
AISignalType(an) ==
  IF an.trend_direction = "uptrend" /\ an.trend_strength \in {"STRONG", "VERY_STRONG"}
  THEN "BUY"
  ELSE IF an.trend_direction = "downtrend"
          /\ an.trend_strength \in {"STRONG", "VERY_STRONG"}
  THEN "SELL" ELSE "NONE"

\* volatility_factor = max(0.02, volatility_level * 0.1), times 10000
AIVolatilityFactor(an) ==
  IF an.volatility_level < 200 THEN 200 ELSE an.volatility_level

\* the exact value of abs(take_profit - entry) / abs(entry - stop_loss) for the
\* points of _calculate_entry_exit_points: reward = entry * factor * 2.5,
\* risk = entry * factor
AIRiskReward(an) ==
  LET risk == an.current_price * AIVolatilityFactor(an) * min_risk_reward_ratio[2]
      reward == an.current_price * AIVolatilityFactor(an) * min_risk_reward_ratio[1]
  IN  <<reward, risk>>

\* risk_reward_ratio < self.min_risk_reward_ratio on the double the code
\* computes: the exact ratio is below the floor, or it is at most the floor and
\* the quotient was rounded down
AIPoorRiskReward(rr, rounded_down) ==
  \/ rr[1] * min_risk_reward_ratio[2] < min_risk_reward_ratio[1] * rr[2]
  \/ /\ rounded_down
     /\ rr[1] * min_risk_reward_ratio[2] = min_risk_reward_ratio[1] * rr[2]

AIResult(reason, an, rr) ==
  [reason |-> reason, trend |-> an.trend_direction, rr |-> rr, signal |-> <<>>]

\* signal_lock_duration of __init__, in seconds
signal_lock_duration == 3600

\* step 9 passes the name comprehensive_data, which generate_ai_signal never
\* binds (it is a local of analyze_market_deeply): the call raises NameError
ReasoningRaises(an) == TRUE

\* the AISignal of step 11: locked_until = current_time + signal_lock_duration
AISignal(an, rr, t) ==
  [signal_type |-> AISignalType(an), entry_price |-> an.current_price,
   risk_reward_ratio |-> rr, timestamp |-> t,
   locked_until |-> t + signal_lock_duration]

\* step 1 of generate_ai_signal
AILocked(signals, t, a) == a \in DOMAIN signals /\ t < signals[a].locked_until

\* steps 2 to 12 of generate_ai_signal behind the try/except of
\* analyze_asset_with_ai.  A candidate that passes step 7 reaches step 9,
\* which raises NameError; analyze_asset_with_ai catches it and returns None.
\* A zero price divides by zero in step 7 with the same outcome.
AIAdmission(t, in, rounded_down) ==
  LET an == AnalyzeMarketDeeply(in)
      rr == AIRiskReward(an)
  IN  IF ~MeetsAIStandards(an) THEN AIResult("below_standards", an, <<>>)
      ELSE IF an.market_condition \in {"VOLATILE", "SIDEWAYS"}
      THEN AIResult("bad_market_condition", an, <<>>)
      ELSE IF an.trend_strength \in {"WEAK", "UNCLEAR"}
      THEN AIResult("weak_trend", an, <<>>)
      ELSE IF AISignalType(an) = "NONE" THEN AIResult("no_direction", an, <<>>)
      ELSE IF an.current_price = 0 THEN AIResult("raised", an, <<>>)
      ELSE IF AIPoorRiskReward(rr, rounded_down)
      THEN AIResult("poor_risk_reward", an, <<rr>>)
      ELSE IF ReasoningRaises(an) THEN AIResult("raised", an, <<rr>>)
      ELSE [reason |-> "emitted", trend |-> an.trend_direction, rr |-> <<rr>>,
            signal |-> <<AISignal(an, rr, t)>>]

\* generate_ai_signal
GenerateAISignal(signals, t, a, in, rounded_down) ==
  IF AILocked(signals, t, a)
  THEN AIResult("locked", AnalyzeMarketDeeply(in), <<>>)
  ELSE AIAdmission(t, in, rounded_down)

\* self.active_signals[asset_id] = ai_signal of step 12
StoreSignal(signals, a, result) ==
  IF result.signal = <<>> THEN signals
  ELSE [x \in DOMAIN signals \cup {a} |->
          IF x = a THEN result.signal[1] ELSE signals[x]]

\* AdvancedMarketAI.clean_expired_signals at time t
AICleanExpired(signals, t) ==
  [a \in {x \in DOMAIN signals : ~(t > signals[x].locked_until)} |-> signals[a]]

\* does the call reach the quotient of step 7
AIReachesRiskReward(in) ==
  LET an == AnalyzeMarketDeeply(in)
  IN  MeetsAIStandards(an) /\ AISignalType(an) # "NONE" /\ an.current_price # 0

(* --------------- PriceService: multi-timeframe analysis ---------------- *)
\* the indicator values _analyze_multi_timeframe_indicators derives from the
\* price history: moving averages in 1/100, rsi in points, momentum and price
\* change in hundredths of a percent
Readings15m == {<<10100, 10000, 60>>, <<10025, 10000, 50>>, <<9900, 10000, 40>>}

Readings5m == {<<10100, 10000, 30>>, <<9990, 10000, -30>>, <<9900, 10000, -30>>}

Readings1m == {<<10010, 10000, 20>>, <<9990, 10000, -20>>}

OverallTrends == {"uptrend", "downtrend", "sideways"}

TimeframeReading(n, overall, r15, r5, r1) ==
  [history_len |-> n, overall_trend |-> overall, volatility |-> 0,
   sma_15m_short |-> r15[1], sma_15m_long |-> r15[2], rsi_15m |-> r15[3],
   sma_5m_short |-> r5[1], sma_5m_long |-> r5[2], momentum_5m |-> r5[3],
   ema_1m_fast |-> r1[1], ema_1m_slow |-> r1[2], price_change_1m |-> r1[3]]

MTFInputs ==
  {TimeframeReading(20, o, r15, r5, r1) :
     o \in OverallTrends, r15 \in Readings15m, r5 \in Readings5m, r1 \in Readings1m}
  \cup {TimeframeReading(19, "uptrend", <<10100, 10000, 60>>,
                         <<10100, 10000, 30>>, <<10010, 10000, 20>>)}

\* the trend of one timeframe: short above long * up/1000, below long * down/1000
TrendOfAverages(short, long, up, down) ==
  IF 1000 * short > up * long THEN "uptrend"
  ELSE IF 1000 * short < down * long THEN "downtrend" ELSE "sideways"

Trend15m(r) == TrendOfAverages(r.sma_15m_short, r.sma_15m_long, 1003, 997)

Trend5m(r) == TrendOfAverages(r.sma_5m_short, r.sma_5m_long, 1002, 998)

EntrySignal(r) ==
  IF r.ema_1m_fast > r.ema_1m_slow /\ r.price_change_1m > 10 THEN "buy_ready"
  ELSE IF r.ema_1m_fast < r.ema_1m_slow /\ r.price_change_1m < -10
  THEN "sell_ready" ELSE "wait"

MTFResult(reason, type, confidence) ==
  [reason |-> reason, type |-> type, confidence |-> confidence]

\* a BUY alignment that looks at the overall and the 5-minute trend only
BuyAlignedWithout15m(r) ==
  /\ r.overall_trend = "uptrend"
  /\ Trend5m(r) = "uptrend"
  /\ EntrySignal(r) = "buy_ready"

\* the four conditions of the BUY branch
BuyAligned(r) ==
  /\ r.overall_trend = "uptrend"
  /\ Trend15m(r) = "uptrend"
  /\ Trend5m(r) = "uptrend"
  /\ EntrySignal(r) = "buy_ready"

\* a SELL alignment that looks at the overall and the 15-minute trend only
SellAlignedWithout5m(r) ==
  /\ r.overall_trend = "downtrend"
  /\ Trend15m(r) = "downtrend"
  /\ EntrySignal(r) = "sell_ready"

\* the four conditions of the SELL branch
SellAligned(r) ==
  /\ r.overall_trend = "downtrend"
  /\ Trend15m(r) = "downtrend"
  /\ Trend5m(r) = "downtrend"
  /\ EntrySignal(r) = "sell_ready"

\* the confluence part of _analyze_multi_timeframe_indicators
MTFConfluence(r) ==
  LET buy == BuyAligned(r)
      sell == ~buy /\ SellAligned(r)
      buy_ok == /\ buy
                /\ r.sma_5m_short > r.sma_5m_long
                /\ r.rsi_15m > 45
                /\ r.momentum_5m > 0
      sell_ok == /\ sell
                 /\ r.sma_5m_short < r.sma_5m_long
                 /\ r.rsi_15m < 55
                 /\ r.momentum_5m < 0
      strength == 70 + (IF 30 < r.rsi_15m /\ r.rsi_15m < 70 THEN 15 ELSE 0)
                     + (IF buy_ok /\ r.momentum_5m > 50 THEN 15 ELSE 0)
                     + (IF sell_ok /\ r.momentum_5m < -50 THEN 15 ELSE 0)
  IN  IF ~(buy_ok \/ sell_ok) THEN MTFResult("not_aligned", "NONE", 0)
      ELSE IF strength >= 75
      THEN MTFResult("emitted", IF buy_ok THEN "BUY" ELSE "SELL",
                     IF strength + 10 > 95 THEN 95 ELSE strength + 10)
      ELSE MTFResult("weak_signal", "NONE", 0)

\* _analyze_multi_timeframe_indicators
MultiTimeframe(r) ==
  IF r.history_len < 20 THEN MTFResult("insufficient_data", "NONE", 0)
  ELSE IF r.overall_trend \in {"volatile", "sideways"} \/ r.volatility > 4
  THEN MTFResult("blocked_market", "NONE", 0)
  ELSE IF Trend15m(r) = "sideways" /\ Trend5m(r) = "sideways"
  THEN MTFResult("sideways_timeframes", "NONE", 0)
  ELSE MTFConfluence(r)

(* ------------------------------ state ---------------------------------- *)
VARIABLES
  now,                  \* time.time(), in seconds
  active_signals,       \* SmartTechnicalAnalyzer.active_signals
  ai_active_signals,    \* AdvancedMarketAI.active_signals
  learning_weights,     \* SmartTechnicalAnalyzer.learning_weights
  signal_accuracy_log,  \* SmartTechnicalAnalyzer.signal_accuracy_log
  total_signals,        \* performance_stats['total_signals']
  outcome_log,          \* outcomes passed to _update_indicator_weights so far
  last,                 \* the most recent call and what it returned
  last_signal_time,     \* PriceService.last_signal_time
  timers,               \* the timer threads inside analyze_asset_with_ai
  scoring,              \* a scoring pass and a weight update in two threads
  monitor,              \* the price_monitor thread
  real_trades_tracker,  \* the module-level RealTradesTracker and its timers
  price_service,        \* PriceService.offline_mode and api_failure_count
  ai_optimizer          \* AISignalOptimizer.signal_patterns, failure_patterns

vars ==
  <<now, active_signals, ai_active_signals, learning_weights,
    signal_accuracy_log, total_signals, outcome_log, last,
    last_signal_time, timers, scoring, monitor, real_trades_tracker,
    price_service, ai_optimizer>>

\* the trade tracker, the price service's offline switch and the optimizer
serviceVars == <<real_trades_tracker, price_service, ai_optimizer>>

\* the state of the threads and of the other services, which the
\* single-threaded calls leave alone
threadVars == <<timers, scoring, monitor, serviceVars>>

Wins(log) == Cardinality({k \in 1..Len(log) : log[k] = "win"})

EmptyTable == [a \in {} |-> a]

\* the threads app.py starts analyses in: one per threading.Timer
Threads == {1, 2}

\* no timer thread is inside analyze_asset_with_ai
IdleTimers == [th \in Threads |-> [pc |-> "idle"]]

\* neither analyze_trend_stability nor _update_indicator_weights is running
IdleScoring ==
  [reader |-> [pc |-> "idle"], writer |-> [pc |-> "idle"],
   maps |-> {DefaultWeights}]

\* price_monitor before its first cycle
IdleMonitor ==
  [pc |-> "start", cycle_count |-> 0, emitted |-> {}, decisions |-> <<>>,
   processing_time |-> 0, sleep_time |-> 0, stop_requested |-> FALSE,
   started_after_stop |-> FALSE, killed_at |-> "none"]

\* RealTradesTracker.__init__: no trade, no price, no timer.  trades holds the
\* dictionaries track_real_signal has built, in order of creation;
\* active_trades maps a trade id to the dictionary stored under it
NewTracker ==
  [trades |-> <<>>, active_trades |-> EmptyTable, completed_trades |-> <<>>,
   winning_trades |-> 0, losing_trades |-> 0, current_prices |-> EmptyTable,
   timers |-> <<>>]

\* PriceService.__init__: online, no failure counted
NewPriceService == [offline_mode |-> FALSE, api_failure_count |-> EmptyTable]

\* AISignalOptimizer.__init__: no pattern learned
NewOptimizer ==
  [signal_patterns |-> EmptyTable, failure_patterns |-> EmptyTable,
   patterns_learned |-> 0, total_analyzed |-> 0]

\* the state __init__ leaves
Init ==
  /\ now = 0
  /\ active_signals = EmptyTable
  /\ ai_active_signals = EmptyTable
  /\ learning_weights = DefaultWeights
  /\ signal_accuracy_log = EmptyTable
  /\ total_signals = 0
  /\ outcome_log = <<>>
  /\ last = [op |-> "init"]
  /\ last_signal_time = EmptyTable
  /\ timers = IdleTimers
  /\ scoring = IdleScoring
  /\ monitor = IdleMonitor
  /\ real_trades_tracker = NewTracker
  /\ price_service = NewPriceService
  /\ ai_optimizer = NewOptimizer

\* _update_indicator_weights(outcome), at most bound calls
UpdateIndicatorWeights(outcome, bound) ==
  /\ Len(outcome_log) < bound
  /\ outcome = "win" => Wins(outcome_log) < MaxWins
  /\ learning_weights' = UpdateIndicatorWeightsOf(learning_weights, outcome)
  /\ outcome_log' = Append(outcome_log, outcome)
  /\ last' = [op |-> "update_weights", outcome |-> outcome]
  /\ UNCHANGED <<now, active_signals, ai_active_signals, signal_accuracy_log,
                 total_signals, last_signal_time, threadVars>>

\* generate_smart_signal(a, ms)
GenerateSmartSignal(a, ms) ==
  LET r == SmartEvaluate(active_signals, learning_weights, signal_accuracy_log,
                         now, a, ms)
  IN  /\ last' = [op |-> "generate_smart_signal", asset |-> a, time |-> now,
                  market_state |-> ms,
                  lock |-> IF a \in DOMAIN active_signals
                           THEN <<active_signals[a]>> ELSE <<>>,
                  result |-> r]
      /\ IF r.signal # <<>>
         THEN /\ active_signals' =
                   [x \in DOMAIN active_signals \cup {a} |->
                      IF x = a THEN r.signal[1] ELSE active_signals[x]]
              /\ total_signals' = total_signals + 1
         ELSE UNCHANGED <<active_signals, total_signals>>
      /\ UNCHANGED <<now, ai_active_signals, learning_weights, signal_accuracy_log,
                     outcome_log, last_signal_time, threadVars>>

\* clean_expired_signals()
CleanExpiredSignals ==
  /\ active_signals' = CleanExpired(active_signals, now)
  /\ last' = [op |-> "clean_expired_signals"]
  /\ UNCHANGED <<now, ai_active_signals, learning_weights, signal_accuracy_log,
                 total_signals, outcome_log, last_signal_time, threadVars>>

\* the clock advances between calls
Tick(d) ==
  /\ now + d <= MaxTime
  /\ now' = now + d
  /\ UNCHANGED <<active_signals, ai_active_signals, learning_weights,
                 signal_accuracy_log, total_signals, outcome_log, last,
                 last_signal_time, threadVars>>

\* analyze_asset_with_ai(asset_data): prune, analyse, generate
AnalyzeAssetWithAI(a, in, rounded_down) ==
  LET table == AICleanExpired(ai_active_signals, now)
      r == GenerateAISignal(table, now, a, in, rounded_down)
  IN  /\ ai_active_signals' = StoreSignal(table, a, r)
      /\ last' = [op |-> "analyze_asset_with_ai", asset |-> a, time |-> now,
                  input |-> in, rounded_down |-> rounded_down,
                  lock |-> IF a \in DOMAIN table THEN <<table[a]>> ELSE <<>>,
                  result |-> r]
      /\ UNCHANGED <<now, active_signals, learning_weights, signal_accuracy_log,
                     total_signals, outcome_log, last_signal_time, threadVars>>

\* _analyze_multi_timeframe_indicators(asset_id, price_data, current_time)
AnalyzeMultiTimeframe(r) ==
  /\ last' = [op |-> "analyze_multi_timeframe", input |-> r,
              result |-> MultiTimeframe(r)]
  /\ UNCHANGED <<now, active_signals, ai_active_signals, learning_weights,
                 signal_accuracy_log, total_signals, outcome_log,
                 last_signal_time, threadVars>>

TickSteps == {300, 301}

NextWeights == \E o \in Outcomes : UpdateIndicatorWeights(o, MaxUpdates)

\* _update_indicator_weights alone, from the constructor's weights
SpecWeights == Init /\ [][NextWeights]_vars

Next ==
  \/ \E a \in Assets, ms \in MarketStates : GenerateSmartSignal(a, ms)
  \/ \E o \in Outcomes : UpdateIndicatorWeights(o, MaxEvalUpdates)
  \/ CleanExpiredSignals
  \/ \E a \in Assets, in \in AIInputs :
       \E rd \in IF AIReachesRiskReward(in) THEN BOOLEAN ELSE {FALSE} :
         AnalyzeAssetWithAI(a, in, rd)
  \/ \E r \in MTFInputs : AnalyzeMultiTimeframe(r)

\* The three signal paths from their constructors.  No call stores a signal
\* here, so nothing reads the clock: it runs in SpecLockCheck.
Spec == Init /\ [][Next]_vars

(* ------------------------ the lock check alone ------------------------- *)
\* Under Spec no evaluation ever stores a signal, so active_signals stays
\* empty there.  The lock check reads nothing but the table, the asset and
\* the clock; SpecLockCheck applies it to tables of signals stored at time 0
\* with a lock_duration inside the clamp [300, 2400] of step 9.
LockSpans == {300, 600}

StoredSignals ==
  {TradingSignal([signal_type |-> "BUY", entry_price |-> 1000,
                  stop_loss |-> 980, take_profit |-> 1040],
                 confidence_threshold, "uptrend", <<40, 20>>, 0, <<d, 1>>) :
     d \in LockSpans}

LockTables ==
  UNION {[S -> StoredSignals] : S \in SUBSET Assets}

InitLockCheck ==
  /\ now = 0
  /\ active_signals \in LockTables
  /\ ai_active_signals = EmptyTable
  /\ learning_weights = DefaultWeights
  /\ signal_accuracy_log = EmptyTable
  /\ total_signals = Cardinality(DOMAIN active_signals)
  /\ outcome_log = <<>>
  /\ last = [op |-> "init"]
  /\ last_signal_time = EmptyTable
  /\ timers = IdleTimers
  /\ scoring = IdleScoring
  /\ monitor = IdleMonitor
  /\ real_trades_tracker = NewTracker
  /\ price_service = NewPriceService
  /\ ai_optimizer = NewOptimizer

NextLockCheck ==
  \/ \E a \in Assets, ms \in MarketStates : GenerateSmartSignal(a, ms)
  \/ CleanExpiredSignals
  \/ \E d \in TickSteps : Tick(d)

SpecLockCheck == InitLockCheck /\ [][NextLockCheck]_vars

(* ---------------------- the lock duration alone ------------------------ *)
\* Step 9 of generate_smart_signal computes lock_duration from atr / price and
\* the stability score of step 2.  SpecLockDuration applies steps 2 and 9 to
\* pairs of market states.
LockStates ==
  {[BullishState EXCEPT !.price = p, !.atr = v, !.rsi = r] :
     p \in {100, 200}, v \in {1, 2, 6, 8, 12, 400}, r \in {60, 70}}

LockDurationOf(ms) == LockDuration(ms, AssessMarketStability(ms).score40)

\* steps 2 and 9 for two candidates
CompareLockDurations(x, y) ==
  /\ last' = [op |-> "lock_duration", first |-> x, second |-> y,
              first_score |-> AssessMarketStability(x).score40,
              second_score |-> AssessMarketStability(y).score40,
              first_duration |-> LockDurationOf(x),
              second_duration |-> LockDurationOf(y)]
  /\ UNCHANGED <<now, active_signals, ai_active_signals, learning_weights,
                 signal_accuracy_log, total_signals, outcome_log,
                 last_signal_time, threadVars>>

NextLockDuration == \E x \in LockStates, y \in LockStates : CompareLockDurations(x, y)

SpecLockDuration == Init /\ [][NextLockDuration]_vars

(* ------------------------- the votes alone ----------------------------- *)
\* analyze_trend_stability applied to snapshots in which any of the four
\* voting indicators may be NaN
VoteStates ==
  {[BullishState EXCEPT !.rsi = r, !.macd = m, !.stochastic = k,
                        !.bollinger_lower = b[1], !.bollinger_upper = b[2]] :
     r \in {NaN, 25, 30, 44, 45, 50, 55, 56, 70, 71},
     m \in {NaN, -4000, 0, 4000},
     k \in {NaN, 10, 20, 50, 80, 90},
     b \in {<<NaN, NaN>>, <<980, 1020>>, <<1010, 1050>>, <<950, 990>>,
            <<1000, 1040>>, <<960, 1000>>}}

\* a fresh analyzer and the snapshot it is about to be given
InitVotes ==
  /\ now = 0
  /\ active_signals = EmptyTable
  /\ ai_active_signals = EmptyTable
  /\ learning_weights = DefaultWeights
  /\ signal_accuracy_log = EmptyTable
  /\ total_signals = 0
  /\ outcome_log = <<>>
  /\ last \in {[op |-> "snapshot", market_state |-> ms] : ms \in VoteStates}
  /\ last_signal_time = EmptyTable
  /\ timers = IdleTimers
  /\ scoring = IdleScoring
  /\ monitor = IdleMonitor
  /\ real_trades_tracker = NewTracker
  /\ price_service = NewPriceService
  /\ ai_optimizer = NewOptimizer

\* analyze_trend_stability(ms)
AnalyzeTrendStabilityCall(ms) ==
  /\ last.op = "snapshot"
  /\ last.market_state = ms
  /\ LET tr == AnalyzeTrendStability(learning_weights, ms)
     IN  last' = [op |-> "analyze_trend_stability", market_state |-> ms,
                  votes |-> IndicatorsVote(ms), trend |-> tr.trend,
                  max_score |-> tr.max_score, total |-> tr.total]
  /\ UNCHANGED <<now, active_signals, ai_active_signals, learning_weights,
                 signal_accuracy_log, total_signals, outcome_log,
                 last_signal_time, threadVars>>

NextVotes == \E ms \in VoteStates : AnalyzeTrendStabilityCall(ms)

SpecVotes == InitVotes /\ [][NextVotes]_vars

(* -------------------- generate_trading_signals_fast -------------------- *)
\* what _get_ai_market_analysis returns: nothing (the OpenAI call failed), or
\* the JSON object of the reply, whose signal_type may be absent
FastAnalyses ==
  {<<>>,
   <<[signal_type |-> "BUY", confidence |-> 80]>>,
   <<[signal_type |-> "SELL", confidence |-> 60]>>,
   <<[signal_type |-> "HOLD", confidence |-> 80]>>,
   <<[signal_type |-> "absent", confidence |-> 80]>>}

\* the trend_analysis entries of one asset
FastReadings ==
  {TimeframeReading(20, "uptrend", <<10100, 10000, 60>>,
                    <<10100, 10000, 30>>, <<10010, 10000, 20>>),
   TimeframeReading(20, "sideways", <<10025, 10000, 50>>,
                    <<10000, 10000, 0>>, <<10010, 10000, 20>>),
   TimeframeReading(20, "volatile", <<10100, 10000, 60>>,
                    <<10100, 10000, 30>>, <<10010, 10000, 20>>)}

\* the replies and the trend entries price_monitor hands over for one asset
FastInputs ==
  {in \in [analysis : FastAnalyses, reading : FastReadings] :
     \/ in.reading.overall_trend = "uptrend"
     \/ in.reading.overall_trend = "sideways"
          /\ (in.analysis = <<>> \/ in.analysis[1].signal_type \in {"SELL", "absent"})
     \/ in.reading.overall_trend = "volatile"
          /\ in.analysis # <<>> /\ in.analysis[1].signal_type = "BUY"}

\* _create_enhanced_trading_signal: the type is the reply's signal_type, 'HOLD'
\* when the reply has none, and the confidence is clamped to [75, 95]
CreateEnhancedTradingSignal(a, an) ==
  [asset_id |-> a,
   type |-> IF an.signal_type = "absent" THEN "HOLD" ELSE an.signal_type,
   confidence |-> Clamp(an.confidence, 75, 95),
   ai_powered |-> TRUE]

\* analyze_market_with_ai: None when there is no analysis
AnalyzeMarketWithAI(a, in) ==
  IF in.analysis = <<>> THEN <<>>
  ELSE <<CreateEnhancedTradingSignal(a, in.analysis[1])>>

\* one iteration of the loop of generate_trading_signals_fast: the signals it
\* appends for asset a
FastSignalsOf(lst, t, a, in) ==
  LET ai == AnalyzeMarketWithAI(a, in)
      mtf == MultiTimeframe(in.reading)
  IN  IF a \in DOMAIN lst /\ t - lst[a] < 20 THEN <<>>
      ELSE IF in.reading.history_len >= 10
              /\ (in.reading.overall_trend = "volatile" \/ in.reading.volatility > 5)
      THEN <<>>
      ELSE IF ai # <<>> /\ ai[1].confidence >= 75 THEN ai
      ELSE IF mtf.type # "NONE"
      THEN <<[asset_id |-> a, type |-> mtf.type, confidence |-> mtf.confidence,
              ai_powered |-> FALSE]>>
      ELSE <<>>

\* the assets in the order of current_prices
AssetOrder == <<"A", "B">>

\* the loop from asset k on: the signals appended and last_signal_time
RECURSIVE FastLoop(_, _, _, _, _)
FastLoop(lst, t, inputs, k, signals) ==
  IF k > Len(AssetOrder) THEN [signals |-> signals, last_signal_time |-> lst]
  ELSE LET a == AssetOrder[k]
           out == FastSignalsOf(lst, t, a, inputs[a])
       IN  FastLoop(IF out = <<>> THEN lst
                    ELSE [x \in DOMAIN lst \cup {a} |-> IF x = a THEN t ELSE lst[x]],
                    t, inputs, k + 1, signals \o out)

\* generate_trading_signals_fast(current_prices)
GenerateTradingSignalsFast(inputs) ==
  LET r == FastLoop(last_signal_time, now, inputs, 1, <<>>)
  IN  /\ last_signal_time' = r.last_signal_time
      /\ last' = [op |-> "generate_trading_signals_fast", time |-> now,
                  inputs |-> inputs, result |-> r.signals]
      /\ UNCHANGED <<now, active_signals, ai_active_signals, learning_weights,
                     signal_accuracy_log, total_signals, outcome_log, threadVars>>

MaxFastTime == 30

FastTickSteps == {10, 20}

\* the clock advances between two cycles of price_monitor
TickFast(d) ==
  /\ now + d <= MaxFastTime
  /\ now' = now + d
  /\ UNCHANGED <<active_signals, ai_active_signals, learning_weights,
                 signal_accuracy_log, total_signals, outcome_log, last,
                 last_signal_time, threadVars>>

NextSignalsFast ==
  \/ \E inputs \in [Assets -> FastInputs] : GenerateTradingSignalsFast(inputs)
  \/ \E d \in FastTickSteps : TickFast(d)

\* generate_trading_signals_fast called cycle after cycle
SpecSignalsFast == Init /\ [][NextSignalsFast]_vars

(* ------------------ analyze_asset_with_ai in timer threads ------------- *)
\* handle_timed_analysis starts one threading.Timer per request, and every
\* timer thread calls analyze_asset_with_ai on the one module-level market_ai.
\* No lock guards market_ai.active_signals, so the threads interleave between
\* the statements of clean_expired_signals and generate_ai_signal.
\* SpecTimers starts from tables of signals stored at time 0, one second
\* before their locks run out.
AIStoredSignal ==
  [signal_type |-> "BUY", entry_price |-> 1000, risk_reward_ratio |-> <<5, 2>>,
   timestamp |-> 0, locked_until |-> signal_lock_duration]

AILockTables == UNION {[S -> {AIStoredSignal}] : S \in SUBSET Assets}

\* the analyses the timer threads are started with: a candidate that passes
\* steps 1 to 7, and a sideways market
TimerInputs ==
  {in \in AIInputs : /\ in.noise = -100 /\ in.volatility = 200
                     /\ in.trend_info.trend \in {"uptrend", "sideways"}}

MaxTimerTime == 3601

InitTimers ==
  /\ now = signal_lock_duration - 1
  /\ active_signals = EmptyTable
  /\ ai_active_signals \in AILockTables
  /\ learning_weights = DefaultWeights
  /\ signal_accuracy_log = EmptyTable
  /\ total_signals = 0
  /\ outcome_log = <<>>
  /\ last = [op |-> "init"]
  /\ last_signal_time = EmptyTable
  /\ timers = IdleTimers
  /\ scoring = IdleScoring
  /\ monitor = IdleMonitor
  /\ real_trades_tracker = NewTracker
  /\ price_service = NewPriceService
  /\ ai_optimizer = NewOptimizer

\* what a timer thread leaves unchanged
timerFrame ==
  <<now, active_signals, learning_weights, signal_accuracy_log, total_signals,
    outcome_log, last, last_signal_time, scoring, monitor, serviceVars>>

\* the keys the list comprehension of clean_expired_signals collects at time t
RECURSIVE ExpiredFrom(_, _, _)
ExpiredFrom(signals, t, k) ==
  IF k > Len(AssetOrder) THEN <<>>
  ELSE (IF AssetOrder[k] \in DOMAIN signals /\ t > signals[AssetOrder[k]].locked_until
        THEN <<AssetOrder[k]>> ELSE <<>>) \o ExpiredFrom(signals, t, k + 1)

\* del self.active_signals[asset_id]
DeleteSignal(signals, a) == [x \in DOMAIN signals \ {a} |-> signals[x]]

\* a timer fires: perform_deep_analysis calls analyze_asset_with_ai
StartAnalysis(th, a, in) ==
  /\ timers[th].pc \in {"idle", "done"}
  /\ timers' = [timers EXCEPT ![th] =
                  [pc |-> "listing", asset |-> a, input |-> in,
                   table_before |-> ai_active_signals]]
  /\ UNCHANGED <<ai_active_signals, timerFrame>>

\* clean_expired_signals: expired_assets = [...]
ListExpired(th) ==
  /\ timers[th].pc = "listing"
  /\ timers' = [timers EXCEPT ![th] =
                  [pc |-> "deleting", asset |-> timers[th].asset,
                   input |-> timers[th].input,
                   table_before |-> timers[th].table_before,
                   expired |-> ExpiredFrom(ai_active_signals, now, 1)]]
  /\ UNCHANGED <<ai_active_signals, timerFrame>>

\* clean_expired_signals: one iteration of the del loop.  A key another thread
\* has deleted since the list was built raises KeyError, which the except
\* clause of analyze_asset_with_ai turns into a None result.
DeleteExpired(th) ==
  LET me == timers[th]
      a == me.expired[1]
  IN  /\ me.pc = "deleting"
      /\ me.expired # <<>>
      /\ IF a \in DOMAIN ai_active_signals
         THEN /\ ai_active_signals' = DeleteSignal(ai_active_signals, a)
              /\ timers' = [timers EXCEPT ![th].expired = Tail(me.expired)]
         ELSE /\ timers' = [timers EXCEPT ![th] =
                              [pc |-> "done", asset |-> me.asset,
                               input |-> me.input, checked |-> FALSE,
                               result |-> AIResult("prune_raised",
                                            AnalyzeMarketDeeply(me.input), <<>>)]]
              /\ UNCHANGED ai_active_signals
      /\ UNCHANGED timerFrame

\* generate_ai_signal, step 1: current_time = time.time() and the lock check
CheckLock(th) ==
  LET me == timers[th]
      locked == AILocked(ai_active_signals, now, me.asset)
  IN  /\ me.pc = "deleting"
      /\ me.expired = <<>>
      /\ timers' = [timers EXCEPT ![th] =
           IF locked
           THEN [pc |-> "done", asset |-> me.asset, input |-> me.input,
                 checked |-> TRUE,
                 locked_before |-> AILocked(me.table_before, now, me.asset),
                 result |-> AIResult("locked", AnalyzeMarketDeeply(me.input), <<>>)]
           ELSE [pc |-> "admitting", asset |-> me.asset, input |-> me.input,
                 current_time |-> now,
                 locked_before |-> AILocked(me.table_before, now, me.asset)]]
      /\ UNCHANGED <<ai_active_signals, timerFrame>>

\* generate_ai_signal, steps 2 to 12, and the return of analyze_asset_with_ai
Admit(th) ==
  LET me == timers[th]
      r == AIAdmission(me.current_time, me.input, FALSE)
  IN  /\ me.pc = "admitting"
      /\ ai_active_signals' = StoreSignal(ai_active_signals, me.asset, r)
      /\ timers' = [timers EXCEPT ![th] =
                      [pc |-> "done", asset |-> me.asset, input |-> me.input,
                       checked |-> TRUE, locked_before |-> me.locked_before,
                       current_time |-> me.current_time, result |-> r]]
      /\ UNCHANGED timerFrame

\* a second passes
TimerTick ==
  /\ now + 1 <= MaxTimerTime
  /\ now' = now + 1
  /\ UNCHANGED <<active_signals, ai_active_signals, learning_weights,
                 signal_accuracy_log, total_signals, outcome_log, last,
                 last_signal_time, threadVars>>

NextTimers ==
  \/ \E th \in Threads, a \in Assets, in \in TimerInputs : StartAnalysis(th, a, in)
  \/ \E th \in Threads : ListExpired(th)
  \/ \E th \in Threads : DeleteExpired(th)
  \/ \E th \in Threads : CheckLock(th)
  \/ \E th \in Threads : Admit(th)
  \/ TimerTick

SpecTimers == InitTimers /\ [][NextTimers]_vars

(* ------------- a scoring pass racing with a weight update -------------- *)
\* analyze_trend_stability reads self.learning_weights once per vote, and
\* _update_indicator_weights rewrites the same dict in place, entry by entry,
\* in two loops.  Neither takes a lock.  SpecScoring runs one scoring pass in
\* one thread and the updates in another, one dict access per step.
\* scoring.maps is the set of weight maps the updates start from and end with.

\* the keys of self.learning_weights in insertion order
IndicatorOrder == <<"rsi", "macd", "bollinger", "volume", "stochastic", "williams_r">>

\* the keys of indicators_vote in insertion order
VoteOrder == <<"rsi", "macd", "bollinger", "stochastic">>

MaxRaceUpdates == 1

\* the snapshots the racing scoring pass is called with
ScoringStates == {BullishState, MixedState}

\* what the two threads leave unchanged
scoringFrame ==
  <<now, active_signals, ai_active_signals, signal_accuracy_log, total_signals,
    last_signal_time, timers, monitor, serviceVars>>

\* _update_indicator_weights is entered.  The weights are rewritten over the
\* denominator 100 * den, in which learning_rate is the old den.
BeginUpdate(outcome) ==
  /\ scoring.writer.pc = "idle"
  /\ Len(outcome_log) < MaxRaceUpdates
  /\ learning_weights' =
       [num |-> [i \in Indicators |-> BMulInt(learning_weights.num[i], 100)],
        den |-> BMulInt(learning_weights.den, 100)]
  /\ scoring' = [scoring EXCEPT
       !.writer = [pc |-> "clamping", outcome |-> outcome, k |-> 1,
                   unit |-> learning_weights.den],
       !.maps = @ \cup {UpdateIndicatorWeightsOf(learning_weights, outcome)}]
  /\ UNCHANGED <<outcome_log, last, scoringFrame>>

\* one iteration of the first loop: the weight plus or minus learning_rate,
\* clamped at 0.4 or 0.05
ClampOne ==
  LET wr == scoring.writer
      i == IndicatorOrder[wr.k]
      n == learning_weights.num[i]
      moved == IF wr.outcome = "win"
               THEN BMin(BMulInt(wr.unit, 40), BAdd(n, wr.unit))
               ELSE IF BLess(n, wr.unit) THEN BMulInt(wr.unit, 5)
                    ELSE BMax(BMulInt(wr.unit, 5), BSub(n, wr.unit))
  IN  /\ wr.pc = "clamping"
      /\ learning_weights' = [learning_weights EXCEPT !.num[i] = moved]
      /\ scoring' = [scoring EXCEPT !.writer =
           IF wr.k < Len(IndicatorOrder) THEN [wr EXCEPT !.k = wr.k + 1]
           ELSE [pc |-> "summing", outcome |-> wr.outcome]]
      /\ UNCHANGED <<outcome_log, last, scoringFrame>>

\* total_weight = sum(self.learning_weights.values()).  The weights are
\* rewritten over the denominator den * total, the total being a numerator
\* over den.
SumWeights ==
  LET wr == scoring.writer
      total == WeightSum(learning_weights)
  IN  /\ wr.pc = "summing"
      /\ learning_weights' =
           [num |-> [i \in Indicators |-> BMul(learning_weights.num[i], total)],
            den |-> BMul(learning_weights.den, total)]
      /\ scoring' = [scoring EXCEPT !.writer =
           [pc |-> "dividing", outcome |-> wr.outcome, k |-> 1,
            raw |-> learning_weights.num, den_old |-> learning_weights.den]]
      /\ UNCHANGED <<outcome_log, last, scoringFrame>>

\* one iteration of the second loop: the weight divided by total_weight
DivideOne ==
  LET wr == scoring.writer
      i == IndicatorOrder[wr.k]
  IN  /\ wr.pc = "dividing"
      /\ learning_weights' =
           [learning_weights EXCEPT !.num[i] = BMul(wr.raw[i], wr.den_old)]
      /\ IF wr.k < Len(IndicatorOrder)
         THEN /\ scoring' = [scoring EXCEPT !.writer.k = wr.k + 1]
              /\ UNCHANGED <<outcome_log, last>>
         ELSE /\ scoring' = [scoring EXCEPT !.writer = [pc |-> "idle"]]
              /\ outcome_log' = Append(outcome_log, wr.outcome)
              /\ last' = [op |-> "update_weights", outcome |-> wr.outcome]
      /\ UNCHANGED scoringFrame

\* analyze_trend_stability is entered and the votes are taken
BeginScoring(ms) ==
  /\ scoring.reader.pc \in {"idle", "done"}
  /\ scoring' = [scoring EXCEPT !.reader =
       [pc |-> "reading", market_state |-> ms, k |-> 1,
        seen |-> [i \in {} |-> i]]]
  /\ UNCHANGED <<learning_weights, outcome_log, last, scoringFrame>>

\* the weights a scoring pass has read, over one denominator
RECURSIVE SeenDen(_, _)
SeenDen(seen, S) ==
  IF S = {} THEN BFromInt(1)
  ELSE LET i == CHOOSE j \in S : TRUE
       IN  BMul(seen[i].den, SeenDen(seen, S \ {i}))

SeenWeights(seen) ==
  [num |-> [i \in DOMAIN seen |->
              BMul(seen[i].num, SeenDen(seen, DOMAIN seen \ {i}))],
   den |-> SeenDen(seen, DOMAIN seen)]

\* one iteration of the scoring loop: weight = self.learning_weights.get(...);
\* after the last one the direction rule is applied to what was read
ReadWeight ==
  LET rd == scoring.reader
      i == VoteOrder[rd.k]
      seen == [x \in DOMAIN rd.seen \cup {i} |->
                 IF x = i THEN [num |-> learning_weights.num[i],
                                den |-> learning_weights.den]
                 ELSE rd.seen[x]]
  IN  /\ rd.pc = "reading"
      /\ scoring' = [scoring EXCEPT !.reader =
           IF rd.k < Len(VoteOrder)
           THEN [rd EXCEPT !.k = rd.k + 1, !.seen = seen]
           ELSE [pc |-> "done", market_state |-> rd.market_state, seen |-> seen,
                 trend |-> AnalyzeTrendStability(SeenWeights(seen),
                                                 rd.market_state).trend]]
      /\ UNCHANGED <<learning_weights, outcome_log, last, scoringFrame>>

NextScoring ==
  \/ \E o \in Outcomes : BeginUpdate(o)
  \/ ClampOne
  \/ SumWeights
  \/ DivideOne
  \/ \E ms \in ScoringStates : BeginScoring(ms)
  \/ ReadWeight

SpecScoring == Init /\ [][NextScoring]_vars

(* --------------------------- price_monitor ----------------------------- *)
\* price_monitor is `while True:` in a daemon thread: it reads no flag and no
\* event, and nothing joins it.  The one way to stop it is to end the process,
\* and a daemon thread dies wherever it is when the interpreter exits.
\* monitor.stop_requested records that the process has been asked to end;
\* started_after_stop and killed_at record what the loop did after that.
MaxCycles == 8

\* the prices and replies of one cycle: the same reply for every asset
MonitorInputs ==
  {[a \in Assets |-> in] :
     in \in {x \in FastInputs : /\ x.reading.overall_trend = "uptrend"
                                /\ \/ x.analysis = <<>>
                                   \/ x.analysis[1].signal_type \in {"BUY", "HOLD"}}}

\* what the loop over raw_signals meets in one cycle: the verdict of
\* ai_optimizer.should_generate_signal, whether openai_analyzer is enabled
\* (OPENAI_API_KEY is set), and the confidence of analyze_with_economic_news
\* (in percent)
MonitorReviews ==
  {[should_proceed |-> TRUE, openai_enabled |-> FALSE, openai_confidence |-> 0]}
  \cup {[should_proceed |-> FALSE, openai_enabled |-> FALSE, openai_confidence |-> 0]}
  \cup {[should_proceed |-> FALSE, openai_enabled |-> TRUE, openai_confidence |-> c] :
          c \in {84, 85}}

\* the measured processing time of one cycle, in seconds
ProcessingTimes == {0, 2}

\* one iteration of `for raw_signal in raw_signals`: the signal is approved
\* and broadcast, or rejected; a rejected signal is analysed again by OpenAI
\* when that is enabled, and broadcast when that analysis has confidence >= 85
ReviewSignal(sig, rev) ==
  [asset_id |-> sig.asset_id, type |-> sig.type,
   rejected |-> ~rev.should_proceed,
   evaluations |-> IF ~rev.should_proceed /\ rev.openai_enabled THEN 2 ELSE 1,
   broadcast |-> \/ rev.should_proceed
                 \/ rev.openai_enabled /\ rev.openai_confidence >= 85]

\* sleep_time = max(5, 5 - processing_time)
SleepTime(processing_time) ==
  IF 5 - processing_time > 5 THEN 5 - processing_time ELSE 5

\* what price_monitor leaves unchanged
monitorFrame ==
  <<active_signals, ai_active_signals, learning_weights, signal_accuracy_log,
    total_signals, outcome_log, timers, scoring, serviceVars>>

\* the top of the loop: get_all_prices, cycle_count += 1 and the two periodic
\* broadcasts.  Nothing is consulted before the iteration starts.
StartTick ==
  /\ monitor.pc = "start"
  /\ monitor.cycle_count < MaxCycles
  /\ monitor' = [monitor EXCEPT
       !.pc = "tick",
       !.cycle_count = @ + 1,
       !.emitted = (IF (monitor.cycle_count + 1) % 8 = 0
                    THEN {"price_update"} ELSE {})
                   \cup (IF (monitor.cycle_count + 1) % 15 = 0
                         THEN {"system_status"} ELSE {}),
       !.decisions = <<>>,
       !.started_after_stop = @ \/ monitor.stop_requested]
  /\ UNCHANGED <<now, last, last_signal_time, monitorFrame>>

\* the rest of the try block: generate_trading_signals_fast, the loop over
\* raw_signals with its trading_signal broadcasts, and the sleep time computed
\* from the processing time of the cycle
FinishTick(inputs, rev, processing_time) ==
  LET r == FastLoop(last_signal_time, now, inputs, 1, <<>>)
  IN  /\ monitor.pc = "tick"
      /\ last_signal_time' = r.last_signal_time
      /\ last' = [op |-> "generate_trading_signals_fast", time |-> now,
                  inputs |-> inputs, result |-> r.signals]
      /\ monitor' = [monitor EXCEPT
           !.pc = "sleep",
           !.decisions = [k \in 1..Len(r.signals) |-> ReviewSignal(r.signals[k], rev)],
           !.processing_time = processing_time,
           !.sleep_time = SleepTime(processing_time)]
      /\ UNCHANGED <<now, monitorFrame>>

\* time.sleep(sleep_time), then the next cycle
EndSleep ==
  /\ monitor.pc = "sleep"
  /\ now' = now + monitor.processing_time + monitor.sleep_time
  /\ monitor' = [monitor EXCEPT !.pc = "start"]
  /\ UNCHANGED <<last, last_signal_time, monitorFrame>>

\* the process is asked to end (socketio.run returns in the main thread)
RequestStop ==
  /\ ~monitor.stop_requested
  /\ monitor.pc # "killed"
  /\ monitor' = [monitor EXCEPT !.stop_requested = TRUE]
  /\ UNCHANGED <<now, last, last_signal_time, monitorFrame>>

\* the interpreter exits and the daemon thread ends where it stands
ProcessExit ==
  /\ monitor.stop_requested
  /\ monitor.pc # "killed"
  /\ monitor' = [monitor EXCEPT !.pc = "killed", !.killed_at = monitor.pc]
  /\ UNCHANGED <<now, last, last_signal_time, monitorFrame>>

NextMonitor ==
  \/ StartTick
  \/ \E inputs \in MonitorInputs, rev \in MonitorReviews, p \in ProcessingTimes :
       FinishTick(inputs, rev, p)
  \/ EndSleep
  \/ RequestStop
  \/ ProcessExit

SpecMonitor == Init /\ [][NextMonitor]_vars

(* ----------------------- the volatility check alone -------------------- *)
\* A snapshot with atr / price >= 0.05 has a volatility partial of 0.2, so it
\* is stable only with the other three partials at their best, which makes the
\* Bollinger and the Stochastic vote neutral; with the constructor's weights
\* the trend is then sideways.  Step 4 is reached after the weights of RSI and
\* MACD have grown relative to the others.  SpecVolatility evaluates such
\* snapshots after up to MaxVolatilityUpdates weight updates.
VolatilityStates ==
  {[VolatileState EXCEPT !.atr = r, !.rsi = d[1], !.macd = d[2]] :
     r \in {40, 50, 60, 90}, d \in {<<60, 4000>>, <<40, -4000>>}}

NextVolatility ==
  \/ \E o \in Outcomes : UpdateIndicatorWeights(o, MaxVolatilityUpdates)
  \/ \E a \in Assets, ms \in VolatilityStates : GenerateSmartSignal(a, ms)

SpecVolatility == Init /\ [][NextVolatility]_vars

(* ------------------------ update_learning_system ----------------------- *)
\* An entry of signal_accuracy_log is {accuracy, count, total_profit}; the
\* model keeps accuracy as <<num, den>> and count, and adds wins, the number of
\* the asset's own outcomes above 0, which the code does not store.
\* performance_stats['successful_signals'] is incremented once per such
\* outcome and nowhere else, so it is the sum of wins over the entries.
RECURSIVE SuccessfulSignals(_, _)
SuccessfulSignals(log, S) ==
  IF S = {} THEN 0
  ELSE LET a == CHOOSE x \in S : TRUE
       IN  log[a].wins + SuccessfulSignals(log, S \ {a})

\* lines 353 to 363: the entry is created, counted and the success recorded
CountOutcome(log, a, outcome) ==
  LET old == IF a \in DOMAIN log THEN log[a]
             ELSE [accuracy |-> DefaultAccuracy, count |-> 0, wins |-> 0]
  IN  [x \in DOMAIN log \cup {a} |->
         IF x = a
         THEN [old EXCEPT !.count = @ + 1,
                          !.wins = @ + (IF outcome = "win" THEN 1 ELSE 0)]
         ELSE log[x]]

\* update_learning_system(a, signal_timestamp, actual_outcome).  Line 365
\* divides successful_signals by total_signals, which only an emission
\* increments: with total_signals = 0 the call ends there in ZeroDivisionError,
\* after the count and before accuracy, weights and averages are written.
UpdateLearningSystem(a, outcome) ==
  LET counted == CountOutcome(signal_accuracy_log, a, outcome) IN
  /\ counted[a].count <= MaxOutcomes
  /\ IF total_signals = 0
     THEN /\ signal_accuracy_log' = counted
          /\ last' = [op |-> "update_learning_system", asset |-> a,
                      outcome |-> outcome, raised |-> TRUE]
          /\ UNCHANGED <<learning_weights, outcome_log>>
     ELSE /\ signal_accuracy_log' =
               [counted EXCEPT ![a].accuracy =
                  <<SuccessfulSignals(counted, DOMAIN counted), total_signals>>]
          /\ learning_weights' = UpdateIndicatorWeightsOf(learning_weights, outcome)
          /\ outcome_log' = Append(outcome_log, outcome)
          /\ last' = [op |-> "update_learning_system", asset |-> a,
                      outcome |-> outcome, raised |-> FALSE]
  /\ UNCHANGED <<now, active_signals, ai_active_signals, total_signals,
                 last_signal_time, threadVars>>

NextLearning ==
  \/ \E a \in Assets, o \in Outcomes : UpdateLearningSystem(a, o)
  \/ \E a \in Assets, ms \in {BullishState, BearishState} : GenerateSmartSignal(a, ms)

\* outcomes reported for the signals of two assets, between evaluations
SpecLearning == Init /\ [][NextLearning]_vars

(* --------------- evaluations over tables with several locks ------------ *)
\* generate_smart_signal and generate_ai_signal applied to tables that hold
\* signals of either asset, while every lock is live (time 0) and after every
\* lock has run out (time signal_lock_duration).
InitFrame ==
  /\ now \in {0, signal_lock_duration}
  /\ active_signals \in LockTables
  /\ ai_active_signals \in AILockTables
  /\ learning_weights = DefaultWeights
  /\ signal_accuracy_log = EmptyTable
  /\ total_signals = Cardinality(DOMAIN active_signals)
  /\ outcome_log = <<>>
  /\ last = [op |-> "init"]
  /\ last_signal_time = EmptyTable
  /\ timers = IdleTimers
  /\ scoring = IdleScoring
  /\ monitor = IdleMonitor
  /\ real_trades_tracker = NewTracker
  /\ price_service = NewPriceService
  /\ ai_optimizer = NewOptimizer

\* generate_ai_signal(market_analysis, asset_data) on its own, without the
\* clean_expired_signals call of analyze_asset_with_ai
GenerateAISignalCall(a, in) ==
  LET r == GenerateAISignal(ai_active_signals, now, a, in, FALSE)
  IN  /\ ai_active_signals' = StoreSignal(ai_active_signals, a, r)
      /\ last' = [op |-> "generate_ai_signal", asset |-> a, time |-> now,
                  input |-> in, result |-> r]
      /\ UNCHANGED <<now, active_signals, learning_weights, signal_accuracy_log,
                     total_signals, outcome_log, last_signal_time, threadVars>>

NextFrame ==
  \/ \E a \in Assets, ms \in {BullishState, MixedState} : GenerateSmartSignal(a, ms)
  \/ \E a \in Assets, in \in TimerInputs : GenerateAISignalCall(a, in)

SpecFrame == InitFrame /\ [][NextFrame]_vars

(* ------------- generate_trading_signals_fast, signal timestamps -------- *)
\* The call reads time.time() once, as current_time, and compares and stores
\* that value in last_signal_time. A signal of the multi-timeframe path is
\* stamped with current_time; a signal of the AI path is stamped with
\* datetime.now() inside _create_enhanced_trading_signal, after the OpenAI
\* request of analyze_market_with_ai has returned.

\* the seconds one OpenAI request takes
AILatencies == {0, 5}

SpacingTickSteps == {5, 20}

\* the replies and trend entries of the cycles whose timestamps are followed
SpacingInputs ==
  {in \in FastInputs :
     in.analysis = <<>> \/ in.analysis[1].signal_type = "BUY"}

\* the iteration for asset a gets as far as analyze_market_with_ai
ReachesAIAnalyzer(lst, t, a, in) ==
  /\ ~(a \in DOMAIN lst /\ t - lst[a] < 20)
  /\ ~(/\ in.reading.history_len >= 10
       /\ (in.reading.overall_trend = "volatile" \/ in.reading.volatility > 5))

\* the loop from asset k on with the wall clock: t is current_time, clock the
\* time.time() the loop has reached
RECURSIVE TimedFastLoop(_, _, _, _, _, _, _)
TimedFastLoop(lst, t, clock, inputs, latency, k, signals) ==
  IF k > Len(AssetOrder)
  THEN [signals |-> signals, last_signal_time |-> lst, clock |-> clock]
  ELSE LET a == AssetOrder[k]
           out == FastSignalsOf(lst, t, a, inputs[a])
           clock2 == IF ReachesAIAnalyzer(lst, t, a, inputs[a])
                     THEN clock + latency ELSE clock
           stamped == IF out = <<>> THEN <<>>
                      ELSE <<[asset_id |-> a, type |-> out[1].type,
                              ai_powered |-> out[1].ai_powered,
                              timestamp |-> IF out[1].ai_powered
                                            THEN clock2 ELSE t]>>
       IN  TimedFastLoop(IF out = <<>> THEN lst
                         ELSE [x \in DOMAIN lst \cup {a} |->
                                 IF x = a THEN t ELSE lst[x]],
                         t, clock2, inputs, latency, k + 1, signals \o stamped)

\* the timestamps of the signals emitted for each asset up to and including
\* the call recorded in last
EmittedTimestamps ==
  IF last.op # "generate_trading_signals_fast" THEN [a \in Assets |-> {}]
  ELSE [a \in Assets |->
          last.emitted[a] \cup
          {last.result[i].timestamp :
             i \in {j \in 1..Len(last.result) : last.result[j].asset_id = a}}]

\* generate_trading_signals_fast(current_prices), every OpenAI request of the
\* call taking latency seconds
GenerateTradingSignalsFastTimed(inputs, latency) ==
  LET r == TimedFastLoop(last_signal_time, now, now, inputs, latency, 1, <<>>)
  IN  /\ r.clock <= MaxFastTime
      /\ now' = r.clock
      /\ last_signal_time' = r.last_signal_time
      /\ last' = [op |-> "generate_trading_signals_fast", time |-> now,
                  result |-> r.signals, emitted |-> EmittedTimestamps]
      /\ UNCHANGED <<active_signals, ai_active_signals, learning_weights,
                     signal_accuracy_log, total_signals, outcome_log, threadVars>>

NextSignalSpacing ==
  \/ \E inputs \in [Assets -> SpacingInputs], latency \in AILatencies :
       GenerateTradingSignalsFastTimed(inputs, latency)
  \/ \E d \in SpacingTickSteps : TickFast(d)

SpecSignalSpacing == Init /\ [][NextSignalSpacing]_vars

(* ----------------------- real_trades_tracker --------------------------- *)
\* app.py hands every approved signal to the module-level real_trades_tracker.
\* track_real_signal starts a threading.Timer per signal, evaluate_real_trade
\* runs in that timer's thread, and no lock guards the tracker: the threads
\* interleave between the statements of evaluate_real_trade.

\* RealTradesTracker.evaluation_period, in seconds
evaluation_period == 300

\* the signals tracked in one run
MaxTracked == 2

\* the last second at which a signal is tracked
MaxTrackSeconds == 1

\* the clock stops here; no retry timer is started past it
MaxTrackerTime == 400

\* the timers alive at once: one per tracked signal
TimerSlots == 1..MaxTracked

\* the signals app.py tracks: entered at price 100, no trade_id of their own
TrackedSignals ==
  {[asset_id |-> "A", type |-> "BUY", price |-> 100],
   [asset_id |-> "B", type |-> "BUY", price |-> 100],
   [asset_id |-> "B", type |-> "SELL", price |-> 100]}

\* the prices price_monitor reports for one asset
TrackerPrices == {99, 101}

\* the dictionaries update_current_prices is called with: price_monitor
\* passes the prices of every asset
PriceUpdates == [Assets -> TrackerPrices]

RemoveAt(seq, i) == SubSeq(seq, 1, i - 1) \o SubSeq(seq, i + 1, Len(seq))

\* is_winning of evaluate_real_trade: the price moved more than 0.1 % the
\* signal's way
IsWinning(type, entry_price, current_price) ==
  IF type = "BUY"
  THEN (current_price - entry_price) * 1000 > entry_price
  ELSE (current_price - entry_price) * 1000 < -entry_price

trackerFrame ==
  <<active_signals, ai_active_signals, learning_weights, signal_accuracy_log,
    total_signals, outcome_log, last_signal_time, timers, scoring, monitor,
    price_service, ai_optimizer>>

\* track_real_signal(signal_data): the trade id defaults to
\* trade_<int(time.time())>, the new dictionary is stored under it and a timer
\* for evaluate_real_trade is started
TrackRealSignal(signal_data) ==
  LET trade_id == now
      k == Len(real_trades_tracker.trades) + 1
      trade == [trade_id |-> trade_id, asset_id |-> signal_data.asset_id,
                signal_type |-> signal_data.type,
                entry_price |-> signal_data.price, is_evaluated |-> FALSE]
      at == real_trades_tracker.active_trades
  IN  /\ k <= MaxTracked
      /\ real_trades_tracker' =
           [real_trades_tracker EXCEPT
              !.trades = Append(@, trade),
              !.active_trades =
                 [x \in DOMAIN at \cup {trade_id} |->
                    IF x = trade_id THEN k ELSE at[x]],
              !.timers = Append(@, [kind |-> "evaluate", trade_id |-> trade_id,
                                    due |-> now + evaluation_period,
                                    pc |-> "sleeping"])]
      /\ last' = [op |-> "track_real_signal", signal |-> k,
                  trade_id |-> trade_id]
      /\ UNCHANGED <<now, trackerFrame>>

\* update_current_prices(prices_data)
UpdateCurrentPrices(prices_data) ==
  LET cp == real_trades_tracker.current_prices
  IN  /\ real_trades_tracker' =
           [real_trades_tracker EXCEPT
              !.current_prices =
                 [a \in DOMAIN cp \cup DOMAIN prices_data |->
                    IF a \in DOMAIN prices_data THEN prices_data[a] ELSE cp[a]]]
      /\ UNCHANGED <<now, last, trackerFrame>>

\* evaluate_real_trade, lines 66-83, in the thread of timer i: return when the
\* id is gone or its trade is evaluated, start a 30-second retry timer when
\* the asset has no price yet, else read the price and work out the result
EvaluateRealTradeCheck(i) ==
  LET tm == real_trades_tracker.timers[i]
      at == real_trades_tracker.active_trades
      cp == real_trades_tracker.current_prices
      k == at[tm.trade_id]
      trade == real_trades_tracker.trades[k]
  IN  /\ i <= Len(real_trades_tracker.timers)
      /\ tm.kind = "evaluate" /\ tm.pc = "sleeping" /\ now >= tm.due
      /\ IF tm.trade_id \notin DOMAIN at \/ trade.is_evaluated
         THEN real_trades_tracker' =
                [real_trades_tracker EXCEPT !.timers = RemoveAt(@, i)]
         ELSE IF trade.asset_id \notin DOMAIN cp
         THEN /\ now + 30 <= MaxTrackerTime
              /\ real_trades_tracker' =
                   [real_trades_tracker EXCEPT !.timers[i].due = now + 30]
         ELSE real_trades_tracker' =
                [real_trades_tracker EXCEPT
                   !.timers[i] =
                      [kind |-> "evaluate", trade_id |-> tm.trade_id,
                       due |-> tm.due, pc |-> "append", trade |-> k,
                       is_winning |-> IsWinning(trade.signal_type,
                                                trade.entry_price,
                                                cp[trade.asset_id])]]
      /\ UNCHANGED <<now, last, trackerFrame>>

\* line 123: self.completed_trades.append(completed_trade)
EvaluateRealTradeAppend(i) ==
  LET tm == real_trades_tracker.timers[i]
  IN  /\ i <= Len(real_trades_tracker.timers)
      /\ tm.kind = "evaluate" /\ tm.pc = "append"
      /\ real_trades_tracker' =
           [real_trades_tracker EXCEPT
              !.completed_trades =
                 Append(@, [trade_id |-> real_trades_tracker.trades[tm.trade].trade_id,
                            trade |-> tm.trade,
                            result |-> IF tm.is_winning THEN "winning"
                                       ELSE "losing"]),
              !.timers[i] = [tm EXCEPT !.pc = "read_count"] @@
                            [count |-> 0]]
      /\ UNCHANGED <<now, last, trackerFrame>>

\* lines 126-131: self.winning_trades += 1 or self.losing_trades += 1 reads
\* the counter ...
EvaluateRealTradeReadCount(i) ==
  LET tm == real_trades_tracker.timers[i]
  IN  /\ i <= Len(real_trades_tracker.timers)
      /\ tm.kind = "evaluate" /\ tm.pc = "read_count"
      /\ real_trades_tracker' =
           [real_trades_tracker EXCEPT
              !.timers[i].pc = "write_count",
              !.timers[i].count = IF tm.is_winning
                                  THEN real_trades_tracker.winning_trades
                                  ELSE real_trades_tracker.losing_trades]
      /\ UNCHANGED <<now, last, trackerFrame>>

\* ... and stores the value read plus one
EvaluateRealTradeWriteCount(i) ==
  LET tm == real_trades_tracker.timers[i]
  IN  /\ i <= Len(real_trades_tracker.timers)
      /\ tm.kind = "evaluate" /\ tm.pc = "write_count"
      /\ real_trades_tracker' =
           [real_trades_tracker EXCEPT
              !.winning_trades = IF tm.is_winning THEN tm.count + 1 ELSE @,
              !.losing_trades = IF tm.is_winning THEN @ ELSE tm.count + 1,
              !.timers[i].pc = "mark"]
      /\ UNCHANGED <<now, last, trackerFrame>>

\* lines 135-138: trade['is_evaluated'] = True on the dictionary read at the
\* top, and a 60-second timer that pops the id from active_trades
EvaluateRealTradeMark(i) ==
  LET tm == real_trades_tracker.timers[i]
  IN  /\ i <= Len(real_trades_tracker.timers)
      /\ tm.kind = "evaluate" /\ tm.pc = "mark"
      /\ real_trades_tracker' =
           [real_trades_tracker EXCEPT
              !.trades[tm.trade].is_evaluated = TRUE,
              !.timers[i] = [kind |-> "pop", trade_id |-> tm.trade_id,
                             due |-> now + 60, pc |-> "sleeping"]]
      /\ UNCHANGED <<now, last, trackerFrame>>

\* the 60-second timer fires: self.active_trades.pop(trade_id, None)
PopActiveTrade(i) ==
  LET tm == real_trades_tracker.timers[i]
      at == real_trades_tracker.active_trades
  IN  /\ i <= Len(real_trades_tracker.timers)
      /\ tm.kind = "pop" /\ tm.pc = "sleeping" /\ now >= tm.due
      /\ real_trades_tracker' =
           [real_trades_tracker EXCEPT
              !.active_trades = [x \in DOMAIN at \ {tm.trade_id} |-> at[x]],
              !.timers = RemoveAt(@, i)]
      /\ UNCHANGED <<now, last, trackerFrame>>

\* the clock moves to the next second while signals are being tracked
TrackerTick ==
  /\ now < MaxTrackSeconds
  /\ now' = now + 1
  /\ UNCHANGED <<last, real_trades_tracker, trackerFrame>>

\* the clock moves to the time sleeping timer i is due
TrackerSleep(i) ==
  /\ i <= Len(real_trades_tracker.timers)
  /\ real_trades_tracker.timers[i].due > now
  /\ real_trades_tracker.timers[i].due <= MaxTrackerTime
  /\ now' = real_trades_tracker.timers[i].due
  /\ UNCHANGED <<last, real_trades_tracker, trackerFrame>>

NextTracker ==
  \/ \E signal_data \in TrackedSignals : TrackRealSignal(signal_data)
  \/ \E prices_data \in PriceUpdates : UpdateCurrentPrices(prices_data)
  \/ \E i \in TimerSlots : EvaluateRealTradeCheck(i)
  \/ \E i \in TimerSlots : EvaluateRealTradeAppend(i)
  \/ \E i \in TimerSlots : EvaluateRealTradeReadCount(i)
  \/ \E i \in TimerSlots : EvaluateRealTradeWriteCount(i)
  \/ \E i \in TimerSlots : EvaluateRealTradeMark(i)
  \/ \E i \in TimerSlots : PopActiveTrade(i)
  \/ TrackerTick
  \/ \E i \in TimerSlots : TrackerSleep(i)

\* signals tracked, prices reported and timers firing in any order
SpecTracker == Init /\ [][NextTracker]_vars

(* ---------------------- PriceService, offline mode --------------------- *)
\* PriceService.offline_mode_threshold
offline_mode_threshold == 3

BinanceSymbols == {"BTCUSDT", "ETHUSDT"}

TwelveSymbols == {"XAU/USD"}

\* what the HTTP request of a fetch ends in: a price, an exception, or (for
\* TwelveData) a reply without the key 'price'
BinanceResponses == {"price", "exception"}

TwelveResponses == {"price", "exception", "no_price"}

\* sum(self.api_failure_count.values())
RECURSIVE TotalFailures(_, _)
TotalFailures(counts, S) ==
  IF S = {} THEN 0
  ELSE LET s == CHOOSE x \in S : TRUE
       IN  counts[s] + TotalFailures(counts, S \ {s})

\* _handle_api_failure with one threshold per symbol
HandleApiFailurePerSymbol(ps, symbol) ==
  LET c == ps.api_failure_count
      counted == [s \in DOMAIN c \cup {symbol} |->
                    IF s = symbol
                    THEN (IF s \in DOMAIN c THEN c[s] ELSE 0) + 1
                    ELSE c[s]]
  IN  [offline_mode |-> ps.offline_mode
                          \/ counted[symbol] >= offline_mode_threshold,
       api_failure_count |-> counted]

\* _handle_api_failure(symbol): the symbol's counter goes up by one, and the
\* service goes offline when the counters sum to the threshold or more
HandleApiFailure(ps, symbol) ==
  LET c == ps.api_failure_count
      counted == [s \in DOMAIN c \cup {symbol} |->
                    IF s = symbol
                    THEN (IF s \in DOMAIN c THEN c[s] ELSE 0) + 1
                    ELSE c[s]]
  IN  [offline_mode |-> ps.offline_mode
                          \/ TotalFailures(counted, DOMAIN counted)
                               >= offline_mode_threshold,
       api_failure_count |-> counted]

\* the success branch: self.api_failure_count[symbol] = 0
ResetFailureCount(ps, symbol) ==
  [ps EXCEPT !.api_failure_count =
     [s \in DOMAIN @ \cup {symbol} |-> IF s = symbol THEN 0 ELSE @[s]]]

\* the body shared by get_binance_price and get_twelve_data_price: None
\* without a request when offline, else the request and its bookkeeping
FetchPrice(ps, symbol, response) ==
  IF ps.offline_mode THEN ps
  ELSE IF response = "price" THEN ResetFailureCount(ps, symbol)
  ELSE HandleApiFailure(ps, symbol)

\* what a fetch did: whether it sent a request, and what it returned
FetchReport(op, ps, symbol, response) ==
  [op |-> op, symbol |-> symbol, attempted |-> ~ps.offline_mode,
   response |-> IF ps.offline_mode THEN "none" ELSE response,
   returned |-> IF ~ps.offline_mode /\ response = "price" THEN "price"
                ELSE "None"]

offlineFrame ==
  <<now, active_signals, ai_active_signals, learning_weights,
    signal_accuracy_log, total_signals, outcome_log, last_signal_time, timers,
    scoring, monitor, real_trades_tracker, ai_optimizer>>

\* get_binance_price(symbol)
GetBinancePrice(symbol, response) ==
  /\ price_service' = FetchPrice(price_service, symbol, response)
  /\ last' = FetchReport("get_binance_price", price_service, symbol, response)
  /\ UNCHANGED offlineFrame

\* get_twelve_data_price(symbol)
GetTwelveDataPrice(symbol, response) ==
  /\ price_service' = FetchPrice(price_service, symbol, response)
  /\ last' = FetchReport("get_twelve_data_price", price_service, symbol,
                         response)
  /\ UNCHANGED offlineFrame

NextOffline ==
  \/ \E symbol \in BinanceSymbols, response \in BinanceResponses :
       GetBinancePrice(symbol, response)
  \/ \E symbol \in TwelveSymbols, response \in TwelveResponses :
       GetTwelveDataPrice(symbol, response)

\* price fetches, one call at a time
SpecOffline == Init /\ [][NextOffline]_vars

(* ------------------------- ai_signal_optimizer ------------------------- *)
\* results learn_from_result is called with in one run
MaxLearned == 4

\* calls of should_generate_signal in one run
MaxAnalyzed == 2

\* the signals handed to the optimizer; volatility in tenths of a percent
OptimizerSignals ==
  {[type |-> "BUY", trend |-> "uptrend", rsi |-> 30, volatility |-> 0,
    confidence |-> 95],
   [type |-> "BUY", trend |-> "uptrend", rsi |-> 35, volatility |-> 0,
    confidence |-> 80],
   [type |-> "BUY", trend |-> "uptrend", rsi |-> 70, volatility |-> 0,
    confidence |-> 95],
   [type |-> "BUY", trend |-> "sideways", rsi |-> 50, volatility |-> 10,
    confidence |-> 80],
   [type |-> "SELL", trend |-> "uptrend", rsi |-> 70, volatility |-> 20,
    confidence |-> 70]}

\* the result strings app.py and the trackers pass
LearnedResults == {"winning", "losing"}

\* _create_pattern_key: type, trend, RSI range and volatility level
CreatePatternKey(signal_data) ==
  <<signal_data.type, signal_data.trend,
    IF signal_data.rsi < 40 THEN "low"
    ELSE IF signal_data.rsi > 60 THEN "high" ELSE "medium",
    IF signal_data.volatility > 15 THEN "high" ELSE "low">>

\* _optimize_signal: the score starts from analysis['quality_score'], which
\* analyze_signal_quality has not written yet and is 0; None when nothing was
\* improved
OptimizeSignal(signal_data, off_hours) ==
  LET rsi_part == IF \/ signal_data.type = "BUY" /\ signal_data.rsi > 60
                     \/ signal_data.type = "SELL" /\ signal_data.rsi < 40
                  THEN 15 ELSE 0
      trend_part == IF signal_data.trend = "sideways" THEN 10 ELSE 0
      conf_part == IF signal_data.confidence < 80 THEN 12 ELSE 0
      hour_part == IF off_hours THEN 8 ELSE 0
  IN  IF rsi_part + trend_part + conf_part + hour_part = 0 THEN <<>>
      ELSE <<rsi_part + trend_part + conf_part + hour_part>>

\* analyze_signal_quality: quality_score before the clamp
QualityScore(signal_data, off_hours) ==
  LET s == signal_data
      rsi_part ==
        IF s.type = "BUY"
        THEN (IF 20 <= s.rsi /\ s.rsi <= 45 THEN 25
              ELSE IF s.rsi > 70 THEN -20 ELSE 0)
        ELSE (IF 55 <= s.rsi /\ s.rsi <= 80 THEN 25
              ELSE IF s.rsi < 30 THEN -20 ELSE 0)
      trend_part ==
        IF s.trend = "uptrend" /\ s.type = "BUY" THEN 30
        ELSE IF s.trend = "downtrend" /\ s.type = "SELL" THEN 30
        ELSE IF s.trend = "sideways" THEN -15 ELSE -25
      vol_part == IF s.volatility > 20 THEN -20
                  ELSE IF s.volatility < 5 THEN 10 ELSE 0
      conf_part == IF s.confidence >= 90 THEN 20
                   ELSE IF s.confidence < 75 THEN -15 ELSE 0
      score == rsi_part + trend_part + vol_part + conf_part
      optimized == OptimizeSignal(s, off_hours)
  IN  IF score < 50 /\ optimized # <<>> THEN optimized[1] ELSE score

\* failure_count / total_count of the failure record of a key, counted over
\* every result learned for the key
FailureRateOverAllResults(opt, pattern_key) ==
  <<opt.failure_patterns[pattern_key].failure_count,
    opt.failure_patterns[pattern_key].total_count
      + (IF pattern_key \in DOMAIN opt.signal_patterns
         THEN opt.signal_patterns[pattern_key].total_count ELSE 0)>>

\* failure_rate of should_generate_signal, numerator and denominator
FailureRate(opt, pattern_key) ==
  <<opt.failure_patterns[pattern_key].failure_count,
    opt.failure_patterns[pattern_key].total_count>>

\* should_generate_signal: the decision
SignalDecision(opt, market_data, off_hours) ==
  LET pattern_key == CreatePatternKey(market_data)
      rate == FailureRate(opt, pattern_key)
  IN  IF pattern_key \in DOMAIN opt.failure_patterns /\ rate[1] * 10 > 7 * rate[2]
      THEN "rejected_by_ai"
      ELSE IF QualityScore(market_data, off_hours) < 40
      THEN "rejected_by_quality_check"
      ELSE "approved_by_ai"

optimizerFrame ==
  <<now, active_signals, ai_active_signals, learning_weights,
    signal_accuracy_log, total_signals, outcome_log, last_signal_time, timers,
    scoring, monitor, real_trades_tracker, price_service>>

\* learn_from_result(signal_data, result, actual_profit): a winning result is
\* counted in signal_patterns, any other in failure_patterns
LearnFromResult(signal_data, result) ==
  LET pattern_key == CreatePatternKey(signal_data)
      sp == ai_optimizer.signal_patterns
      fp == ai_optimizer.failure_patterns
      old_s == IF pattern_key \in DOMAIN sp THEN sp[pattern_key]
               ELSE [success_count |-> 0, total_count |-> 0]
      old_f == IF pattern_key \in DOMAIN fp THEN fp[pattern_key]
               ELSE [failure_count |-> 0, total_count |-> 0]
  IN  /\ ai_optimizer.patterns_learned < MaxLearned
      /\ ai_optimizer' =
           IF result = "winning"
           THEN [ai_optimizer EXCEPT
                   !.signal_patterns =
                      [k \in DOMAIN sp \cup {pattern_key} |->
                         IF k = pattern_key
                         THEN [success_count |-> old_s.success_count + 1,
                               total_count |-> old_s.total_count + 1]
                         ELSE sp[k]],
                   !.patterns_learned = @ + 1]
           ELSE [ai_optimizer EXCEPT
                   !.failure_patterns =
                      [k \in DOMAIN fp \cup {pattern_key} |->
                         IF k = pattern_key
                         THEN [failure_count |-> old_f.failure_count + 1,
                               total_count |-> old_f.total_count + 1]
                         ELSE fp[k]],
                   !.patterns_learned = @ + 1]
      /\ last' = [op |-> "learn_from_result", signal |-> signal_data,
                  result |-> result]
      /\ UNCHANGED optimizerFrame

\* should_generate_signal(market_data); off_hours is what datetime.now().hour
\* makes of the timing rule of _optimize_signal
ShouldGenerateSignal(market_data, off_hours) ==
  LET d == SignalDecision(ai_optimizer, market_data, off_hours)
  IN  /\ ai_optimizer.total_analyzed < MaxAnalyzed
      /\ ai_optimizer' = [ai_optimizer EXCEPT !.total_analyzed = @ + 1]
      /\ last' = [op |-> "should_generate_signal", signal |-> market_data,
                  proceed |-> d = "approved_by_ai", ai_decision |-> d]
      /\ UNCHANGED optimizerFrame

NextOptimizer ==
  \/ \E signal_data \in OptimizerSignals, result \in LearnedResults :
       LearnFromResult(signal_data, result)
  \/ \E market_data \in OptimizerSignals, off_hours \in BOOLEAN :
       ShouldGenerateSignal(market_data, off_hours)

\* results learned and signals screened in any order
SpecOptimizer == Init /\ [][NextOptimizer]_vars

(* ============================ properties =============================== *)
Evaluated == last.op = "generate_smart_signal"

\* the evaluation found no entry for its asset, or one that no longer blocks
Unlocked == last.result.reason # "locked"

LossRun(log) == \A k \in 1..Len(log) : log[k] = "loss"

RisingIndicators == {"rsi", "macd", "bollinger"}

FallingIndicators == {"volume", "stochastic", "williams_r"}

\* C1: an evaluation of an asset whose stored signal was emitted before now
\* and whose locked_until is still ahead is rejected by the lock check,
\* whatever market state it is given.
C1_LockExclusivity ==
  (/\ Evaluated
   /\ last.lock # <<>>
   /\ last.lock[1].timestamp < last.time
   /\ TimeBefore(last.time, last.lock[1].locked_until))
  => (last.result.reason = "locked" /\ last.result.signal = <<>>)

C1_Witness ==
  /\ Evaluated
  /\ last.lock # <<>>
  /\ last.lock[1].timestamp < last.time
  /\ TimeBefore(last.time, last.lock[1].locked_until)
  /\ last.market_state = BullishState
  /\ last.result.reason = "locked"

\* C3: after every call of _update_indicator_weights, in any order of wins
\* and losses from the default weights, the weights sum to 1.  (Exact
\* arithmetic; the doubles of the code differ from 1 by rounding only.)
C3_WeightsSumToOne ==
  outcome_log # <<>> => WeightSum(learning_weights) = learning_weights.den

C3_Witness ==
  /\ Len(outcome_log) >= 3
  /\ Wins(outcome_log) = 1
  /\ WeightSum(learning_weights) = learning_weights.den
  /\ learning_weights # DefaultWeights

\* C4: after every call of _update_indicator_weights every stored weight is
\* in [0.05, 0.4].
C4_WeightsWithinBounds ==
  \A i \in Indicators :
    /\ ~WeightLess(learning_weights, i, 5, 100)
    /\ ~WeightGreater(learning_weights, i, 40, 100)

\* C5 as stated: during five consecutive losses from the default weights,
\* each call leaves every weight strictly smaller than before or at the 0.05
\* floor, and the weights sum to 1.
C5_EveryWeightShrinks ==
  [][(/\ LossRun(outcome_log)
      /\ Len(outcome_log) < 5
      /\ outcome_log' = Append(outcome_log, "loss"))
     => (/\ \A i \in Indicators :
              \/ WeightBelow(learning_weights', learning_weights, i)
              \/ WeightEquals(learning_weights', i, 5, 100)
         /\ WeightSum(learning_weights') = learning_weights'.den)]_vars

\* C5 amended: during five consecutive losses from the default weights, each
\* call lowers every weight by exactly 0.01 (none reaches the 0.05 floor) and
\* divides it by the new total 0.94, so the stored weight is (w - 0.01) / 0.94:
\* the weights sum to 1, volume, stochastic and williams_r (below 1/6) end
\* strictly smaller than before the call, and rsi, macd and bollinger (above
\* 1/6) end strictly larger.
C5_LossesShiftWeights ==
  [][(/\ LossRun(outcome_log)
      /\ Len(outcome_log) < 5
      /\ outcome_log' = Append(outcome_log, "loss"))
     => (/\ \A i \in Indicators :
              /\ BLess(BMulInt(learning_weights.den, 6),
                       BMulInt(learning_weights.num[i], 100))
              /\ BMul(BMulInt(learning_weights.den, 94), learning_weights'.num[i])
                 = BMul(learning_weights'.den,
                        BSub(BMulInt(learning_weights.num[i], 100),
                             learning_weights.den))
         /\ WeightSum(learning_weights') = learning_weights'.den
         /\ \A i \in FallingIndicators :
              WeightBelow(learning_weights', learning_weights, i)
         /\ \A i \in RisingIndicators :
              WeightBelow(learning_weights, learning_weights', i))]_vars

C5_Witness ==
  /\ Len(outcome_log) = 5
  /\ LossRun(outcome_log)
  /\ WeightGreater(learning_weights, "macd", 25, 100)
  /\ WeightLess(learning_weights, "stochastic", 10, 100)

\* C6: Scenario A on an unlocked asset with the default weights and the
\* default learning history emits a BUY signal with entry_price 100.
C6_ScenarioAEmitsBuy ==
  (/\ Evaluated
   /\ last.market_state = ScenarioA
   /\ Unlocked
   /\ outcome_log = <<>>
   /\ signal_accuracy_log = EmptyTable)
  => (/\ last.result.reason = "emitted"
      /\ last.result.signal[1].signal_type = "BUY"
      /\ last.result.signal[1].entry_price = 1000)

\* C9 as stated: Scenario B on an unlocked asset returns no signal and it is
\* the volatility bound that rejects it.
C9_ScenarioBRejectedByVolatility ==
  (Evaluated /\ last.market_state = ScenarioB /\ Unlocked)
  => (last.result.signal = <<>> /\ last.result.reason = "excessive_volatility")

\* C9 amended: Scenario B on an unlocked asset returns no signal; the check
\* that rejects it is the market-stability check of step 2 (stability score
\* 0.475, not above 0.6), which runs before the volatility bound; the
\* volatility bound of step 4 would reject the state as well.
C9_ScenarioBRejectedByStability ==
  (Evaluated /\ last.market_state = ScenarioB /\ Unlocked)
  => (/\ last.result.signal = <<>>
      /\ last.result.reason = "unstable_market"
      /\ AssessMarketStability(ScenarioB).score40 = 19
      /\ TooVolatile(ScenarioB))

C9_Witness ==
  /\ Evaluated
  /\ last.market_state = ScenarioB
  /\ last.lock = <<>>
  /\ last.result.reason = "unstable_market"

AIEvaluated == last.op = "analyze_asset_with_ai"

MTFEvaluated == last.op = "analyze_multi_timeframe"

\* reward / risk of a stored signal, from its own prices, is at least n/d
RewardCovers(sig, n, d) ==
  d * Abs(sig.take_profit - sig.entry_price) >= n * Abs(sig.entry_price - sig.stop_loss)

\* C7: every signal the smart analyzer emits or stores has reward/risk >= 2.0
\* and a candidate of it below 2.0 is rejected at the risk/reward check; the
\* AI engine emits nothing below its min_risk_reward_ratio of 2.5 and rejects
\* a candidate whose computed ratio is below it.
C7_RiskRewardFloor ==
  /\ \A a \in DOMAIN active_signals : RewardCovers(active_signals[a], 2, 1)
  /\ Evaluated =>
       /\ last.result.signal # <<>> => RewardCovers(last.result.signal[1], 2, 1)
       /\ (last.result.rr # <<>> /\ last.result.rr[1][1] < 2 * last.result.rr[1][2])
          => (last.result.reason = "poor_risk_reward" /\ last.result.signal = <<>>)
  /\ AIEvaluated =>
       /\ last.result.signal = <<>>
       /\ (/\ last.result.rr # <<>>
           /\ \/ 2 * last.result.rr[1][1] < 5 * last.result.rr[1][2]
              \/ last.rounded_down)
          => last.result.reason = "poor_risk_reward"

C7_Witness ==
  /\ Evaluated
  /\ last.market_state = BearishState
  /\ last.result.reason = "poor_risk_reward"
  /\ last.result.rr = <<(<<30, 20>>)>>
  /\ active_signals = EmptyTable

\* C8: an evaluation whose trend direction is sideways returns no signal: the
\* smart analyzer's vote, any of the overall, 15-minute and 5-minute trends
\* of the multi-timeframe analysis, and the trend handed to the AI engine.
\* (A snapshot with price 0 or equal bands ends the evaluation by an
\* exception in step 2, before any signal exists.)
C8_SidewaysNeverEmits ==
  /\ (Evaluated
      /\ AnalyzeTrendStability(learning_weights, last.market_state).trend = "sideways")
     => (/\ last.result.signal = <<>>
         /\ last.result.reason \in {"locked", "unstable_market", "unclear_trend",
                                    "raised"})
  /\ (MTFEvaluated
      /\ "sideways" \in {last.input.overall_trend, Trend15m(last.input),
                         Trend5m(last.input)})
     => last.result.type = "NONE"
  /\ (AIEvaluated /\ last.input.trend_info.trend = "sideways")
     => (last.result.signal = <<>> /\ last.result.reason = "below_standards")

C8_Witness ==
  /\ MTFEvaluated
  /\ last.input.overall_trend = "uptrend"
  /\ Trend15m(last.input) = "sideways"
  /\ Trend5m(last.input) = "uptrend"
  /\ EntrySignal(last.input) = "buy_ready"
  /\ last.result.reason = "not_aligned"

\* the candidate of an AI evaluation passes steps 2 to 7 of generate_ai_signal
AIAdmitted(in, rounded_down) ==
  LET an == AnalyzeMarketDeeply(in)
  IN  /\ MeetsAIStandards(an)
      /\ an.market_condition \notin {"VOLATILE", "SIDEWAYS"}
      /\ an.trend_strength \notin {"WEAK", "UNCLEAR"}
      /\ AISignalType(an) # "NONE"
      /\ an.current_price # 0
      /\ ~AIPoorRiskReward(AIRiskReward(an), rounded_down)

\* the candidate of a smart evaluation passes steps 2 to 8
SmartAdmitted(w, acc_log, a, ms) ==
  /\ ms.price # 0
  /\ ms.bollinger_upper # ms.bollinger_lower
  /\ LET st == AssessMarketStability(ms)
         tr == AnalyzeTrendStability(w, ms)
         cl == AssessTrendClarity(tr, ms)
         acc == IF a \in DOMAIN acc_log THEN acc_log[a].accuracy
                ELSE DefaultAccuracy
     IN  /\ st.is_stable
         /\ cl.is_clear
         /\ ~TooVolatile(ms)
         /\ ~BelowConfidenceThreshold(tr, st.score40, cl.factors,
                                      LearningFactor(acc))
         /\ ~PoorRiskReward(RiskReward(EntryExit(tr.trend, ms)))

\* C11: an evaluation of an unlocked asset whose candidate passes every
\* admission check returns the signal and has stored it in the lock table of
\* its engine under the asset, with locked_until later than the time of the
\* call; for generate_smart_signal and for analyze_asset_with_ai.
C11_PassingCandidateEmits ==
  /\ (/\ Evaluated
      /\ Unlocked
      /\ SmartAdmitted(learning_weights, signal_accuracy_log, last.asset,
                       last.market_state))
     => (/\ last.result.signal # <<>>
         /\ last.asset \in DOMAIN active_signals
         /\ active_signals[last.asset] = last.result.signal[1]
         /\ TimeBefore(last.time, last.result.signal[1].locked_until))
  /\ (/\ AIEvaluated
      /\ ~AILocked(IF last.lock = <<>> THEN EmptyTable
                   ELSE [x \in {last.asset} |-> last.lock[1]],
                   last.time, last.asset)
      /\ AIAdmitted(last.input, last.rounded_down))
     => (/\ last.result.signal # <<>>
         /\ last.asset \in DOMAIN ai_active_signals
         /\ ai_active_signals[last.asset] = last.result.signal[1]
         /\ last.result.signal[1].locked_until > last.time)

\* C15: generate_smart_signal returns a signal or None for every market
\* state, price 0, atr 0 and coinciding Bollinger bands included; it never
\* raises.
C15_SmartSignalNeverRaises ==
  Evaluated => last.result.reason # "raised"

\* C16: every assessment that flags the market stable has a stability score
\* strictly above the stability threshold, and every assessment that flags the
\* trend clear has a clarity score strictly above the clarity threshold; in
\* the smart analyzer (0.6 and 0.65) and in the AI engine (0.75 and 0.80).
C16_FlagsAreStrict ==
  /\ (Evaluated /\ last.result.reason \notin {"locked", "raised"})
     => LET st == AssessMarketStability(last.market_state)
            tr == AnalyzeTrendStability(learning_weights, last.market_state)
            cl == AssessTrendClarity(tr, last.market_state)
        IN  /\ st.is_stable => 10 * st.score40 > 6 * 40
            /\ cl.is_clear =>
                  BLess(BMulInt(tr.total, 195),
                        BAdd(BMulInt(tr.max_score, 100),
                             BMulInt(tr.total, cl.factors)))
  /\ AIEvaluated
     => LET st == AIMarketStability(last.input)
            cl == AITrendClarity(last.input)
        IN  /\ st.is_stable => st.score > min_stability_score
            /\ cl.is_clear => cl.clarity_score > min_clarity_score

\* a / p <= b / q for positive p and q
RatioLeq(a, p, b, q) == a * q <= b * p

\* C12: of two candidates with the same stability score, the one with the
\* higher atr / price never gets the shorter lock_duration.
C12_LockMonotoneInVolatility ==
  (/\ last.op = "lock_duration"
   /\ last.first_score = last.second_score
   /\ RatioLeq(last.first.atr, last.first.price,
               last.second.atr, last.second.price))
  => RatioLeq(last.first_duration[1], last.first_duration[2],
              last.second_duration[1], last.second_duration[2])

C12_Witness ==
  /\ last.op = "lock_duration"
  /\ last.first_score = last.second_score
  /\ last.first.price = 200 /\ last.first.atr = 1
  /\ last.second.price = 100 /\ last.second.atr = 1
  /\ last.first_duration = <<816 * 200, 200>>
  /\ last.second_duration = <<822 * 100, 100>>

\* C14: when the value of RSI, MACD, the Bollinger bands or Stochastic in the
\* market state is NaN, analyze_trend_stability gives that indicator the vote
\* neutral with confidence 0.5.
C14_DataGapsVoteNeutral ==
  last.op = "analyze_trend_stability" =>
    /\ last.market_state.rsi = NaN => last.votes["rsi"] = <<"neutral", 5>>
    /\ last.market_state.macd = NaN => last.votes["macd"] = <<"neutral", 5>>
    /\ last.market_state.bollinger_upper = NaN
       => last.votes["bollinger"] = <<"neutral", 5>>
    /\ last.market_state.stochastic = NaN
       => last.votes["stochastic"] = <<"neutral", 5>>

\* C13: every signal that generate_trading_signals_fast appends to its result
\* has the type BUY or SELL.
C13_FastSignalsAreBuyOrSell ==
  last.op = "generate_trading_signals_fast" =>
    \A k \in 1..Len(last.result) : last.result[k].type \in {"BUY", "SELL"}

\* C17: check-then-acquire on the lock table is atomic.  Two evaluations of one
\* asset are never both between the lock check and the lock write, and two
\* evaluations of one asset never both emit within one lock duration.
C17_CheckThenAcquireAtomic ==
  \A t1 \in Threads : \A t2 \in Threads \ {t1} :
    /\ ~(/\ timers[t1].pc = "admitting"
         /\ timers[t2].pc = "admitting"
         /\ timers[t1].asset = timers[t2].asset)
    /\ ~(/\ timers[t1].pc = "done" /\ timers[t1].result.signal # <<>>
         /\ timers[t2].pc = "done" /\ timers[t2].result.signal # <<>>
         /\ timers[t1].asset = timers[t2].asset
         /\ Abs(timers[t1].current_time - timers[t2].current_time)
              < signal_lock_duration)

SeenEquals(seen, w, i) == BMul(seen[i].num, w.den) = BMul(w.num[i], seen[i].den)

\* C18: the four weights a scoring pass has read are the weights of one map
\* that an update started from or ended with, never a mixture of two maps or a
\* map caught between the two loops.
C18_ScoringSeesConsistentWeights ==
  scoring.reader.pc = "done" =>
    \E w \in scoring.maps :
      \A i \in DOMAIN scoring.reader.seen : SeenEquals(scoring.reader.seen, w, i)

\* C20: price_monitor shuts down gracefully.  After a stop request it starts
\* no new tick, and a tick in flight runs to completion before the loop ends.
C20_GracefulShutdown ==
  /\ ~monitor.started_after_stop
  /\ monitor.pc = "killed" => monitor.killed_at # "tick"

\* C21: within one cycle of price_monitor a candidate is decided once: a raw
\* signal that was rejected is not evaluated again in that cycle and is not
\* broadcast in it.
C21_RejectedIsTerminalInTick ==
  \A k \in 1..Len(monitor.decisions) :
    monitor.decisions[k].rejected =>
      /\ monitor.decisions[k].evaluations = 1
      /\ ~monitor.decisions[k].broadcast

\* C30: the sleep after a cycle is the target period minus the measured
\* processing time of that cycle: a cycle that took time is followed by a
\* shorter sleep than a cycle that took none.
C30_LongerTickShorterSleep ==
  (monitor.pc = "sleep" /\ monitor.processing_time > 0)
    => monitor.sleep_time < SleepTime(0)

\* C22: the admission checks run in the order lock, stability, clarity,
\* volatility, confidence, risk/reward and stop at the first failure, the lock
\* check first; and what a failing check reports differs from what every
\* other failing check reports.
C22_OrderedChecksDistinctReasons ==
  (Evaluated /\ last.result.reason \in AbstainReasons) =>
    LET ms == last.market_state
        reason == last.result.reason
        locked == last.lock # <<>> /\ TimeBefore(last.time, last.lock[1].locked_until)
        st == AssessMarketStability(ms)
        tr == AnalyzeTrendStability(learning_weights, ms)
        cl == AssessTrendClarity(tr, ms)
    IN  /\ locked <=> reason = "locked"
        /\ reason = "unstable_market" <=> (~locked /\ ~st.is_stable)
        /\ reason = "unclear_trend" <=> (~locked /\ st.is_stable /\ ~cl.is_clear)
        /\ reason = "excessive_volatility"
             <=> (~locked /\ st.is_stable /\ cl.is_clear /\ TooVolatile(ms))
        /\ reason \in {"low_confidence", "no_direction", "poor_risk_reward"}
             => (~locked /\ st.is_stable /\ cl.is_clear /\ ~TooVolatile(ms))
        /\ \A other \in AbstainReasons \ {reason} :
             SmartAbstainReport(reason) # SmartAbstainReport(other)

\* C23: the four votes of a snapshot are those of the vote table (a value no
\* rule matches, a NaN among them, takes the last row of its indicator), and
\* computing them leaves the analyzer as its constructor made it.
C23_VotesFollowTheTable ==
  last.op = "analyze_trend_stability" =>
    LET ms == last.market_state
        num(x) == x # NaN
        rsi == IF num(ms.rsi) /\ ms.rsi \in 71..100 THEN <<"overbought", 8>>
               ELSE IF num(ms.rsi) /\ ms.rsi \in 0..29 THEN <<"oversold", 8>>
               ELSE IF num(ms.rsi) /\ ms.rsi \in 45..55 THEN <<"neutral", 6>>
               ELSE IF num(ms.rsi) /\ ms.rsi \in 56..70 THEN <<"bullish", 7>>
               ELSE <<"bearish", 7>>
        macd == IF num(ms.macd) /\ ms.macd >= 1 THEN <<"bullish", 8>>
                ELSE IF num(ms.macd) /\ ms.macd <= -1 THEN <<"bearish", 8>>
                ELSE <<"neutral", 5>>
        bollinger ==
          IF num(ms.bollinger_upper) /\ ms.price - ms.bollinger_upper >= 1
          THEN <<"overbought", 9>>
          ELSE IF num(ms.bollinger_lower) /\ ms.bollinger_lower - ms.price >= 1
          THEN <<"oversold", 9>> ELSE <<"neutral", 6>>
        stochastic ==
          IF num(ms.stochastic) /\ ms.stochastic \in 81..100 THEN <<"overbought", 7>>
          ELSE IF num(ms.stochastic) /\ ms.stochastic \in 0..19 THEN <<"oversold", 7>>
          ELSE <<"neutral", 5>>
    IN  /\ last.votes = [rsi |-> rsi, macd |-> macd, bollinger |-> bollinger,
                         stochastic |-> stochastic]
        /\ learning_weights = DefaultWeights
        /\ active_signals = EmptyTable
        /\ signal_accuracy_log = EmptyTable
        /\ total_signals = 0

\* the RSI sits exactly on 70 and votes bullish, the price sits on the upper
\* band and votes neutral
C23_Witness ==
  /\ last.op = "analyze_trend_stability"
  /\ last.market_state.rsi = 70
  /\ last.market_state.macd = 0
  /\ last.market_state.bollinger_upper = last.market_state.price
  /\ last.market_state.stochastic = 80
  /\ last.votes = [rsi |-> <<"bullish", 7>>, macd |-> <<"neutral", 5>>,
                   bollinger |-> <<"neutral", 6>>, stochastic |-> <<"neutral", 5>>]

\* C24: each vote adds confidence * weight to the bullish bucket (bullish,
\* oversold), the bearish bucket (bearish, overbought) or the neutral one;
\* stability is the largest bucket over the sum of the three and lies in
\* [1/3, 1]; the direction is uptrend exactly when the bullish bucket is the
\* largest and stability > 0.7, downtrend exactly when the bearish bucket is
\* and stability > 0.7, and sideways otherwise.
C24_ConfluenceScoring ==
  last.op = "analyze_trend_stability" =>
    LET w == learning_weights.num
        v == last.votes
        part(i, S) == IF v[i][1] \in S THEN BMulInt(w[i], v[i][2]) ELSE <<>>
        bucket(S) == BAdd(BAdd(part("rsi", S), part("macd", S)),
                          BAdd(part("bollinger", S), part("stochastic", S)))
        bullish == bucket({"bullish", "oversold"})
        bearish == bucket({"bearish", "overbought"})
        neutral == bucket({"neutral"})
        total == BAdd(BAdd(bullish, bearish), neutral)
        largest(b) == BLeq(bullish, b) /\ BLeq(bearish, b) /\ BLeq(neutral, b)
        stable == BLess(BMulInt(total, 7), BMulInt(last.max_score, 10))
    IN  /\ last.total = total
        /\ last.max_score \in {bullish, bearish, neutral}
        /\ largest(last.max_score)
        /\ BLeq(total, BMulInt(last.max_score, 3))
        /\ BLeq(last.max_score, total)
        /\ last.trend = "uptrend" <=> largest(bullish) /\ stable
        /\ last.trend = "downtrend" <=> largest(bearish) /\ stable
        /\ last.trend = "sideways" <=>
             ~(largest(bullish) /\ stable) /\ ~(largest(bearish) /\ stable)

\* the bullish bucket is the largest with stability at most 0.7: sideways
C24_Witness ==
  /\ last.op = "analyze_trend_stability"
  /\ last.votes.rsi[1] = "bullish"
  /\ last.votes.macd[1] = "bullish"
  /\ last.votes.bollinger[1] = "neutral"
  /\ last.votes.stochastic[1] = "overbought"
  /\ last.trend = "sideways"

\* all four votes on the bullish side: stability 1 and an uptrend
C24_WitnessUptrend ==
  /\ last.op = "analyze_trend_stability"
  /\ last.max_score = last.total
  /\ last.trend = "uptrend"

\* the candidates of generate_smart_signal that reached the confidence check
\* of step 6
ReachedConfidenceGate ==
  /\ last.op = "generate_smart_signal"
  /\ last.result.reason \in {"low_confidence", "no_direction",
                             "poor_risk_reward", "emitted"}

C25_WitnessPastGate ==
  /\ ReachedConfidenceGate
  /\ last.result.reason = "poor_risk_reward"

\* C26: the multi-timeframe analysis returns BUY only if the overall trend is
\* uptrend, the 15-minute and the 5-minute short averages stand above their
\* long averages by more than 0.3% and 0.2%, and the 1-minute fast EMA is above
\* the slow one with a positive price change; SELL only in the mirrored case;
\* and whenever the three trends are not one direction, or the 1-minute entry
\* is neither buy_ready nor sell_ready, it returns no signal.
C26_TimeframeAlignment ==
  MTFEvaluated =>
    LET r == last.input
        up15 == 1000 * r.sma_15m_short > 1003 * r.sma_15m_long
        down15 == 1000 * r.sma_15m_short < 997 * r.sma_15m_long
        up5 == 1000 * r.sma_5m_short > 1002 * r.sma_5m_long
        down5 == 1000 * r.sma_5m_short < 998 * r.sma_5m_long
        buy_ready == r.ema_1m_fast > r.ema_1m_slow /\ r.price_change_1m > 10
        sell_ready == /\ ~buy_ready
                      /\ r.ema_1m_fast < r.ema_1m_slow
                      /\ r.price_change_1m < -10
        all_up == r.overall_trend = "uptrend" /\ up15 /\ up5
        all_down == r.overall_trend = "downtrend" /\ down15 /\ down5
    IN  /\ last.result.type \in {"BUY", "SELL", "NONE"}
        /\ last.result.type = "BUY" =>
             all_up /\ buy_ready /\ r.price_change_1m > 0
        /\ last.result.type = "SELL" =>
             all_down /\ sell_ready /\ r.price_change_1m < 0
        /\ ~(all_up \/ all_down) => last.result.type = "NONE"
        /\ ~(buy_ready \/ sell_ready) => last.result.type = "NONE"
        /\ last.result.type = "NONE" <=> last.result.reason # "emitted"

\* a SELL with every timeframe falling and the entry sell_ready
C26_Witness ==
  /\ MTFEvaluated
  /\ last.input.overall_trend = "downtrend"
  /\ Trend15m(last.input) = "downtrend"
  /\ Trend5m(last.input) = "downtrend"
  /\ EntrySignal(last.input) = "sell_ready"
  /\ last.result.type = "SELL"

\* overall and 15-minute trend fall, the 5-minute averages are 0.1% apart:
\* no signal although the entry is sell_ready
C26_WitnessDisagreement ==
  /\ MTFEvaluated
  /\ last.input.overall_trend = "downtrend"
  /\ Trend15m(last.input) = "downtrend"
  /\ Trend5m(last.input) = "sideways"
  /\ last.input.sma_5m_short < last.input.sma_5m_long
  /\ EntrySignal(last.input) = "sell_ready"
  /\ last.result.type = "NONE"

\* C27: no evaluation of a snapshot whose atr / price is above 0.05 (the
\* lower of the two levels of _check_volatility_levels, both of which are too
\* volatile) returns or stores a signal, and a stable, clear candidate with
\* atr / price above 0.05 is turned away at the volatility check itself.
C27_VolatilityBound ==
  (Evaluated /\ 100 * last.market_state.atr > 5 * last.market_state.price) =>
    LET ms == last.market_state
        tr == AnalyzeTrendStability(learning_weights, ms)
    IN  /\ last.result.signal = <<>>
        /\ last.asset \notin DOMAIN active_signals
        /\ (/\ last.result.reason \notin {"locked", "raised"}
            /\ AssessMarketStability(ms).is_stable
            /\ AssessTrendClarity(tr, ms).is_clear)
           => last.result.reason = "excessive_volatility"

\* atr / price = 0.06, between the two levels: stable, clear, and rejected
\* by the volatility check
C27_Witness ==
  /\ Evaluated
  /\ last.market_state.atr = 60
  /\ last.market_state.price = 1000
  /\ AssessMarketStability(last.market_state).is_stable
  /\ last.result.trend \in {"uptrend", "downtrend"}
  /\ last.result.reason = "excessive_volatility"

\* C28: the accuracy update_learning_system records for an asset is the
\* asset's own wins over its own outcome count, whatever was reported for other
\* assets, and the learning factor of the asset is that ratio clamped to
\* [0.8, 1.2].
C28_PerAssetLearningFactor ==
  \A a \in DOMAIN signal_accuracy_log :
    LET e == signal_accuracy_log[a]
        own == <<e.wins, e.count>>
    IN  e.count > 0 =>
          /\ e.accuracy[1] * own[2] = own[1] * e.accuracy[2]
          /\ LearningFactor(e.accuracy)
               = (IF 5 * own[1] < 4 * own[2] THEN <<4, 5>>
                  ELSE IF 5 * own[1] > 6 * own[2] THEN <<6, 5>> ELSE own)

\* C29: the lock duration of step 9, which step 10 adds to the emission time,
\* is clamp(600 + 1200 * atr / price + 600 * (1 - stability_score), 300, 2400)
\* seconds: it lies in [300, 2400], and of two candidates with the same
\* atr / price the one with the lower stability score never gets the shorter
\* lock.
C29_LockDurationFormula ==
  last.op = "lock_duration" =>
    LET d1 == last.first_duration
        d2 == last.second_duration
        \* price * (600 + 1200 * atr / price + 600 * (1 - score40 / 40))
        raw(ms, k) == 600 * ms.price + 1200 * ms.atr + (600 - 15 * k) * ms.price
        clamp(ms, k) ==
          IF raw(ms, k) < 300 * ms.price THEN 300 * ms.price
          ELSE IF raw(ms, k) > 2400 * ms.price THEN 2400 * ms.price
          ELSE raw(ms, k)
        stored(ms, k, t) ==
          TradingSignal(EntryExit("uptrend", ms), confidence_threshold, "uptrend",
                        RiskReward(EntryExit("uptrend", ms)), t,
                        LockDuration(ms, k))
    IN  /\ last.first.price * d1[1] = clamp(last.first, last.first_score) * d1[2]
        /\ last.second.price * d2[1] = clamp(last.second, last.second_score) * d2[2]
        /\ 300 * d1[2] <= d1[1] /\ d1[1] <= 2400 * d1[2]
        /\ \A t \in {0, 600} :
             LET u == stored(last.first, last.first_score, t).locked_until
             IN  (u[1] - t * u[2]) * d1[2] = d1[1] * u[2]
        /\ (/\ last.first.atr * last.second.price = last.second.atr * last.first.price
            /\ last.first_score <= last.second_score)
           => d1[1] * d2[2] >= d2[1] * d1[2]

\* the same atr / price, stability score 0.575 against 0.65: 867 s against 822 s
C29_Witness ==
  /\ last.op = "lock_duration"
  /\ last.first.price = 100 /\ last.first.atr = 1 /\ last.first_score = 23
  /\ last.second.price = 200 /\ last.second.atr = 2 /\ last.second_score = 26
  /\ last.first_duration = <<867 * 100, 100>>
  /\ last.second_duration = <<822 * 200, 200>>

\* atr four times the price: the raw value is above 5000 s and the lock is 2400 s
C29_WitnessClamped ==
  /\ last.op = "lock_duration"
  /\ last.first.atr = 400
  /\ last.first_duration[1] = 2400 * last.first_duration[2]

\* the entry of asset a alone
OwnEntry(signals, a) == [x \in DOMAIN signals \cap {a} |-> signals[x]]

\* the entries of every asset but a are the same in both tables
OthersUntouched(before, after, a) ==
  \A b \in Assets \ {a} :
    /\ b \in DOMAIN before <=> b \in DOMAIN after
    /\ b \in DOMAIN before => before[b] = after[b]

\* C31: an evaluation of asset A by generate_smart_signal or generate_ai_signal
\* gives the result it would give with the entries of all other assets removed
\* from the lock table, leaves those entries as they are, and, when it returns
\* no signal, leaves both lock tables and the adaptive weights unchanged.
C31_EvaluationFrame ==
  [][/\ (last' # last /\ last'.op = "generate_smart_signal") =>
          /\ OthersUntouched(active_signals, active_signals', last'.asset)
          /\ last'.result =
               SmartEvaluate(OwnEntry(active_signals, last'.asset), learning_weights,
                             signal_accuracy_log, now, last'.asset,
                             last'.market_state)
          /\ last'.result.signal = <<>> =>
               /\ active_signals' = active_signals
               /\ ai_active_signals' = ai_active_signals
               /\ learning_weights' = learning_weights
     /\ (last' # last /\ last'.op = "generate_ai_signal") =>
          /\ OthersUntouched(ai_active_signals, ai_active_signals', last'.asset)
          /\ last'.result =
               GenerateAISignal(OwnEntry(ai_active_signals, last'.asset), now,
                                last'.asset, last'.input, FALSE)
          /\ last'.result.signal = <<>> =>
               /\ active_signals' = active_signals
               /\ ai_active_signals' = ai_active_signals
               /\ learning_weights' = learning_weights]_vars

\* asset A, which has no entry, is evaluated and turned away at the
\* confidence check while the lock of asset B is live
C31_Witness ==
  /\ last.op = "generate_smart_signal"
  /\ last.asset = "A"
  /\ DOMAIN active_signals = {"B"}
  /\ TimeBefore(last.time, active_signals["B"].locked_until)
  /\ last.result.reason = "low_confidence"

\* C32: a candidate of generate_smart_signal that reaches the risk/reward
\* check has reward / risk = 3/2 when atr > 0 and 0 when atr = 0, is turned
\* away there because that is below 2.0, and so no call returns a signal:
\* active_signals is empty and total_signals is 0 in every state.  (The ratio
\* is the exact one; the doubles of the code give 1.5 to within rounding.)
C32_NoSignalEverEmitted ==
  /\ active_signals = EmptyTable
  /\ total_signals = 0
  /\ Evaluated =>
       LET atr == last.market_state.atr
           reached == last.result.reason \in {"poor_risk_reward", "emitted"}
       IN  /\ last.result.signal = <<>>
           /\ reached <=> last.result.rr # <<>>
           /\ reached =>
                LET rr == last.result.rr[1]
                IN  /\ atr > 0 => 2 * rr[1] = 3 * rr[2]
                    /\ atr = 0 => rr[1] = 0 /\ rr[2] > 0
                    /\ rr[1] < 2 * rr[2]
                    /\ last.result.reason = "poor_risk_reward"

\* a confident candidate with atr 0: risk 0, ratio 0, no signal
C32_Witness ==
  /\ Evaluated
  /\ last.market_state.atr = 0
  /\ last.result.reason = "poor_risk_reward"
  /\ last.result.rr = <<(<<0, 1>>)>>

\* a confident candidate with atr 1.0: ratio 30 / 20
C32_WitnessPositiveAtr ==
  /\ Evaluated
  /\ last.market_state.atr = 10
  /\ last.result.reason = "poor_risk_reward"
  /\ last.result.rr = <<(<<30, 20>>)>>

\* C33: a call of update_learning_system that raises leaves
\* signal_accuracy_log, the success count and the weights as they were, a call
\* that returns has written the accuracy and updated the weights, and
\* successful_signals <= total_signals in every state.
C33_OutcomeFeedbackAllOrNothing ==
  /\ [](SuccessfulSignals(signal_accuracy_log, DOMAIN signal_accuracy_log)
          <= total_signals)
  /\ [][(last' # last /\ last'.op = "update_learning_system") =>
          IF last'.raised
          THEN /\ signal_accuracy_log' = signal_accuracy_log
               /\ learning_weights' = learning_weights
          ELSE /\ signal_accuracy_log'[last'.asset].accuracy[2] = total_signals
               /\ learning_weights' =
                    UpdateIndicatorWeightsOf(learning_weights, last'.outcome)]_vars

\* C34: a call of generate_trading_signals_fast appends at most one signal per
\* asset, and any two signals emitted for the same asset carry timestamps at
\* least 20 seconds apart.
C34_SignalsTwentySecondsApart ==
  last.op = "generate_trading_signals_fast" /\ "emitted" \in DOMAIN last =>
    /\ \A i, j \in 1..Len(last.result) :
         last.result[i].asset_id = last.result[j].asset_id => i = j
    /\ \A i \in 1..Len(last.result) :
         \A ts \in last.emitted[last.result[i].asset_id] :
           /\ last.result[i].timestamp - ts >= 20
           /\ last_signal_time[last.result[i].asset_id] = last.time

\* C35: every signal passed to track_real_signal has its own active_trades
\* entry until it has been evaluated into its own completed trade: no signal
\* still to be evaluated has lost its entry to another signal.
C35_NoTrackedSignalLost ==
  LET tr == real_trades_tracker
  IN  \A k \in 1..Len(tr.trades) :
        \/ /\ tr.trades[k].trade_id \in DOMAIN tr.active_trades
           /\ tr.active_trades[tr.trades[k].trade_id] = k
        \/ \E j \in 1..Len(tr.completed_trades) : tr.completed_trades[j].trade = k

\* C36: completed_trades holds at most one record per trade id, and whenever
\* no evaluation is between its append and its counter update,
\* winning_trades + losing_trades = len(completed_trades).
C36_EvaluatedAtMostOnce ==
  LET tr == real_trades_tracker
  IN  /\ \A i, j \in 1..Len(tr.completed_trades) :
           tr.completed_trades[i].trade_id = tr.completed_trades[j].trade_id
             => i = j
      /\ (\A i \in 1..Len(tr.timers) :
            tr.timers[i].pc \notin {"read_count", "write_count"})
           => tr.winning_trades + tr.losing_trades = Len(tr.completed_trades)

C38_FailurePatternsSticky ==
  /\ [](\A k \in DOMAIN ai_optimizer.failure_patterns :
          LET rate == FailureRate(ai_optimizer, k)
          IN  rate[1] = rate[2] /\ rate[2] >= 1)
  /\ [](last.op = "should_generate_signal"
          /\ CreatePatternKey(last.signal) \in DOMAIN ai_optimizer.failure_patterns
        => ~last.proceed /\ last.ai_decision = "rejected_by_ai")
  /\ [](last.op = "learn_from_result" /\ last.result # "winning"
        => CreatePatternKey(last.signal) \in DOMAIN ai_optimizer.failure_patterns)
  /\ [][DOMAIN ai_optimizer.failure_patterns
          \subseteq DOMAIN ai_optimizer'.failure_patterns]_vars

C38_Witness ==
  LET k == <<"BUY", "uptrend", "low", "low">>
  IN  /\ k \in DOMAIN ai_optimizer.failure_patterns
      /\ k \in DOMAIN ai_optimizer.signal_patterns
      /\ ai_optimizer.signal_patterns[k].success_count = 3
      /\ ai_optimizer.failure_patterns[k].total_count = 1
      /\ last.op = "should_generate_signal"
      /\ last.signal.rsi = 30 /\ last.ai_decision = "rejected_by_ai"

====
